---- MODULE Spec2Model ----
(***************************************************************************)
(* State-machine model of the reactive signal core of Qwik (v2 signals):   *)
(* Signal2, ComputedSignal2, DerivedSignal2, the effect-subscription graph *)
(* and the dispatch of effects to the container's scheduler.               *)
(*                                                                         *)
(* Source: src/packages/qwik/src/core/v2/signal/v2-signal.ts               *)
(***************************************************************************)
EXTENDS Integers, Sequences, FiniteSets, TLC

(***************************************************************************)
(* Bounds of the model.                                                    *)
(***************************************************************************)
\* Plain signals hold values 0..MaxVal.
MaxVal == 2
\* Subscription records the signal code itself may allocate ([host, true] at
\* line 158 and [this, false] at line 323) on top of the callers' records.
MaxSubs == 2
\* Invocations of runTask: the first runs of two tasks and a re-run of each,
\* or the first run of one task and three re-runs (each after a signal
\* change or as the retry of a suspended run).
MaxRuns == 4
\* The scheduler may throw at its first, ..., MaxFail-th call of an operation
\* (a set of `a` makes up to three calls in the applications below).
MaxFail == 2
\* Nested walks of $triggerEffects$ the call stack holds (the engine's limit is
\* in the thousands; the longest path of a program here is 2).
MaxStack == 4
\* The longest effect list clearEffects is applied to.
MaxLen == 3

(***************************************************************************)
(* The objects of the modelled program.                                    *)
(***************************************************************************)
\* createSignal2(value): a plain signal.
Plain == {"a"}
\* createComputedSignal2(qrl): double = a.value * 2,
\* gate = double.value > 0 ? 1 : 0 (a computed signal over a computed signal,
\* whose result stays the same when a goes from 1 to 2), and two computed
\* signals that read one another on different branches:
\* left = a.value === 0 ? right.value : 0,
\* right = a.value === 0 ? 1 : left.value.
Computed == {"double", "gate", "left", "right"}
\* The computed signals whose function reads a second signal on one branch.
Conditional == {"left", "right"}
\* new DerivedSignal2(null, fn, args, fnStr): plus = fn(a), fn = (s) => s.value + 1
Derived == {"plus"}
Signals == Plain \cup Computed \cup Derived
\* Effects: tasks (use-task.ts Task) and one host VNode.
Tasks == {"T1", "T2"}
Hosts == {"H"}
Containers == {"c1", "c2"}

Values == 0..MaxVal
\* NEEDS_COMPUTATION, v2-signal.ts:38; distinct from every computed result.
NEEDS_COMPUTATION == -1
Null == "null"
Undefined == "undefined"
NoHost == "nohost"

\* EffectSubscriptionsProp.PROPERTY is string | boolean: the booleans are
\* encoded as two reserved strings, a property name as itself.
PropTrue == "TRUE"
PropFalse == "FALSE"

\* TaskFlags, use-task.ts:20-25
VISIBLE_TASK == 1
TASK == 2
RESOURCE == 4
DIRTY == 8

HasFlag(f, bit) == (f \div bit) % 2 = 1
SetFlag(f, bit) == IF HasFlag(f, bit) THEN f ELSE f + bit
ClearFlag(f, bit) == IF HasFlag(f, bit) THEN f - bit ELSE f

(***************************************************************************)
(* State.                                                                  *)
(***************************************************************************)
VARIABLES
  program,         \* the application that runs (fixed at start)
  untrackedValue,  \* [Signals -> value]            Signal2.$untrackedValue$
  invalid,         \* [Computed \cup Derived -> BOOLEAN]  $invalid$
  effects,         \* [Signals -> Seq(record id)]   Signal2.$effects$
  subs,            \* Seq(EffectSubscriptions): the arena of subscription arrays
  container,       \* [Signals -> container|Null]   Signal2.$container$
  flags,           \* [Tasks -> bitfield]           Task.$flags$
  calls,           \* scheduler calls made by the last operation, in order
  runs,            \* [Computed \cup Derived -> Nat] function runs of the last operation
  walks,           \* [Signals -> Nat] nested effect-list walks of the last operation
  lastOp,          \* the last operation, its inputs and its outcome
  destroy,         \* [Tasks -> run|0]  Task.$destroy$: the thunk of that run, 0 = null
  cleanupFns,      \* [run -> Seq(function)]  the closure variable of runTask, <<>> = null
  fired,           \* [run -> Nat]  how often the destroy thunk of that run was called
  nrun,            \* the number of runTask invocations so far
  events,          \* what the last task operation did, in order
  chore,           \* the chore of the task the scheduler executes, and what it awaits
  pending,         \* [Tasks -> who enqueued the waiting TASK chore | "none"]
  rethrows,        \* whether container.handleError rethrows (the renderer's policy)
  queue,           \* Seq(chore): the scheduler's pending chores, in order of arrival
  flush,           \* the scheduler's current flush and what happened in it
  triggered,       \* [Tasks -> BOOLEAN]  the readiness trigger of a visible task has fired
  _locale,         \* the module variable _locale of use-locale.ts
  localAsyncStore, \* BOOLEAN: the AsyncLocalStorage of use-locale.ts is defined
  requests,        \* [Requests -> the calls of withLocale it is in, and counters]
  running,         \* the request that has the thread, or "none"
  lastGet          \* the last step if it was a call of getLocale: arguments and result

taskVars == <<destroy, cleanupFns, fired, nrun, events, chore, pending, rethrows>>
schedulerVars == <<queue, flush, triggered>>
localeVars == <<_locale, localAsyncStore, requests, running, lastGet>>
signalVars == <<program, untrackedValue, invalid, effects, subs, container, flags, calls, runs,
                walks, lastOp>>
vars == <<program, untrackedValue, invalid, effects, subs, container, flags, calls, runs, walks, lastOp,
          destroy, cleanupFns, fired, nrun, events, chore, pending, rethrows,
          queue, flush, triggered, _locale, localAsyncStore, requests, running, lastGet>>

\* An EffectSubscriptions array [effect, property, ...signals]. Arrays are
\* compared by identity in the code (indexOf), so each lives in the arena
\* `subs` and is referred to by its index.
EffectSubscriptions(effect, property) ==
  [effect |-> effect, prop |-> property, deps |-> <<>>]

\* The subscription arrays that callers outside the signal code own and pass
\* in as ctx.$effectSubscriber$: one per task, and three bindings of the host
\* (a node diff, the attribute "p" and a binding whose property name is the
\* empty string).
CallerSubs ==
  << EffectSubscriptions("T1", PropTrue),
     EffectSubscriptions("T2", PropTrue),
     EffectSubscriptions("H", PropFalse),
     EffectSubscriptions("H", "p"),
     EffectSubscriptions("H", "") >>
NCaller == Len(CallerSubs)

\* The applications built on the signals. The bodies of the tasks and the
\* bindings of the host are fixed per application; Tracks gives, for each
\* caller-owned subscriber, the signals it reads through `.value`:
\*   "fanout": tasks T1 and T2 both track a, the "p" attribute of H is bound
\*             to a, and the component body of H reads a;
\*   "chain":  T1 tracks gate and the node-diff binding of H reads double
\*             (a -> double -> gate), the computed signals are also read,
\*             invalidated and forced directly;
\*   "derived": T1 tracks plus, the "p" attribute of H is bound to plus and
\*             the binding with the empty property name to a (a -> plus),
\*             plus is also read, invalidated and forced directly;
\*   "cross":  T1 tracks double, T2 tracks a (a -> double) and the page holds two
\*             containers: the reads are made under contexts of either
\*             container, or of none;
\*   "turn":   left and right are read, invalidated and forced directly, with
\*             no context or under a context without subscriber
\*             (a -> left, a -> right, and left -> right or right -> left
\*             depending on a).
Programs == {"fanout", "chain", "derived", "cross", "turn"}
Tracks(prog) ==
  IF prog = "fanout" THEN << {"a"}, {"a"}, {}, {"a"}, {} >>
  ELSE IF prog = "chain" THEN << {"gate"}, {}, {"double"}, {}, {} >>
  ELSE IF prog = "derived" THEN << {"plus"}, {}, {}, {"plus"}, {"a"} >>
  ELSE IF prog = "cross" THEN << {"double"}, {"a"}, {}, {}, {} >>
  ELSE << {}, {}, {}, {}, {} >>
\* The kind of task T1 in the application: useTask$ (TaskFlags.TASK),
\* useVisibleTask$ (VISIBLE_TASK) or useResource$ (RESOURCE).
TaskKind(prog) ==
  IF prog = "chain" THEN VISIBLE_TASK
  ELSE IF prog = "derived" THEN RESOURCE
  ELSE TASK
\* The signals the component body of host H reads (context with only a host).
HostReads(prog) == IF prog = "fanout" THEN {"a"} ELSE {}
\* The signals read under a context that has neither subscriber nor host.
BareReads(prog) ==
  IF prog = "fanout" THEN {"a"}
  ELSE IF prog = "chain" THEN Plain \cup (Computed \ Conditional)
  ELSE IF prog = "derived" THEN Plain \cup Derived
  ELSE IF prog = "turn" THEN Conditional
  ELSE {}
\* The signals the application uses at all.
Uses(prog) ==
  IF prog = "fanout" THEN {"a"}
  ELSE IF prog = "chain" THEN Plain \cup (Computed \ Conditional)
  ELSE IF prog = "derived" THEN Plain \cup Derived
  ELSE IF prog = "turn" THEN Plain \cup Conditional
  ELSE {"a", "double"}
\* The values of ctx.$container2$ in the contexts of the application.
ContainersOf(prog) ==
  IF prog = "cross" THEN {"c1", "c2", Null} ELSE {"c1"}

\* tryGetInvokeContext(): undefined, or a context with $effectSubscriber$
\* (a record id, 0 when unset), $hostElement$ and $container2$.
NoCtx == [on |-> FALSE, sub |-> 0, host |-> NoHost, cont |-> Null]
BareCtx(k) == [on |-> TRUE, sub |-> 0, host |-> NoHost, cont |-> k]
SubCtx(r, k) == [on |-> TRUE, sub |-> r, host |-> NoHost, cont |-> k]
HostCtx(host, k) == [on |-> TRUE, sub |-> 0, host |-> host, cont |-> k]
Contexts ==
  {NoCtx}
  \cup {BareCtx(k) : k \in Containers \cup {Null}}
  \cup {SubCtx(r, k) : r \in 1..NCaller, k \in Containers \cup {Null}}
  \cup {HostCtx(host, k) : host \in Hosts, k \in Containers \cup {Null}}

\* The reads the program performs: signal s under context ctx.
MayRead(prog, ctx, s) ==
  /\ s \in Uses(prog)
  /\ ctx.on => ctx.cont \in ContainersOf(prog)
  /\ ctx.sub # 0 => s \in Tracks(prog)[ctx.sub]
  /\ (ctx.sub = 0 /\ ctx.host # NoHost) => s \in HostReads(prog)
  /\ (ctx.on /\ ctx.sub = 0 /\ ctx.host = NoHost) => s \in BareReads(prog)

(***************************************************************************)
(* The operations of v2-signal.ts, as functions on a heap record h:        *)
(*   val, invalid, eff, rec, cont, flags  the objects' fields              *)
(*   ctx    the current invocation context (its $effectSubscriber$ is      *)
(*          assigned and restored by $computeIfNeeded$)                    *)
(*   calls, runs, walks   what the operation did so far                    *)
(*   ret    the value returned by the last getter                          *)
(*   did    the result of the last $computeIfNeeded$                       *)
(*   err    an exception is propagating                                    *)
(***************************************************************************)

\* throw: the exception propagates to the caller.
Throw(h) == [h EXCEPT !.err = TRUE]

\* assertDefined / assertTrue / assertFalse (error/assert) with a condition
\* that does not hold: a usage error, thrown to the caller.
AssertionFails(h) == Throw(h)

\* function ensureContains(array, value), v2-signal.ts:249-254
ensureContains(array, value) ==
  IF \E i \in DOMAIN array : array[i] = value THEN array ELSE Append(array, value)

\* A fresh array literal [effect, property] (lines 158 and 323): a new object.
NewSubscription(h, effect, property) ==
  [h EXCEPT !.rec = Append(@, EffectSubscriptions(effect, property))]

\* A plausible slip: the property is tested for truthiness, so the empty
\* property name is taken for `false`.
SchedulerCall_FalsyIsNodeDiff(type, sub, host, prop, signal, origin) ==
  [type |-> IF type = "NODE_PROP" /\ prop = "" THEN "NODE_DIFF" ELSE type,
   sub |-> sub, host |-> host, prop |-> prop, signal |-> signal, origin |-> origin]

\* container.$scheduler$(type, ...args): the scheduler is outside the signal
\* code; the call is recorded with its arguments. `origin` is the walked
\* signal (`signal` of $triggerEffects$) at the time of the call.
SchedulerCall(type, sub, host, prop, signal, origin) ==
  [type |-> type, sub |-> sub, host |-> host, prop |-> prop, signal |-> signal,
   origin |-> origin]

RECURSIVE Signal2_get_value(_, _)
RECURSIVE get_untrackedValue(_, _)
RECURSIVE ComputedSignal2_computeIfNeeded(_, _)
RECURSIVE DerivedSignal2_computeIfNeeded(_, _)
RECURSIVE computeFn(_, _)

\* The functions behind $computeQrl$ and $fn$(...$args$):
\*   double: () => a.value * 2
\*   gate:   () => double.value > 0 ? 1 : 0
\*   plus:   (s) => s.value + 1, with $args$ = [a]
\* FnInput is the signal the function reads through `.value`, FnResult its
\* result on the value read.
FnInput(c) == IF c = "gate" THEN "double" ELSE "a"
FnResult(c, x) ==
  IF c = "double" THEN x * 2
  ELSE IF c = "gate" THEN (IF x > 0 THEN 1 ELSE 0)
  ELSE x + 1

\* The function returns its result, unless the read inside it threw.
FnReturn(h, c) ==
  IF h.err THEN h ELSE [h EXCEPT !.ret = FnResult(c, h.ret)]

\* The signal a conditional function reads after `a`, on the value x of a:
\* left reads right when x is 0, right reads left when it is not.
SecondInput(c, x) ==
  IF c = "left" /\ x = 0 THEN {"right"}
  ELSE IF c = "right" /\ x # 0 THEN {"left"}
  ELSE {}

\* The second operand of the conditional: `other.value`, or the constant
\* (0 in left, 1 in right).
SecondRead(h, c) ==
  IF h.err THEN h
  ELSE IF SecondInput(c, h.ret) = {}
  THEN [h EXCEPT !.ret = IF c = "left" THEN 0 ELSE 1]
  ELSE Signal2_get_value(h, CHOOSE s \in SecondInput(c, h.ret) : TRUE)

\* computeQrl.getFn(ctx)() (line 329) and this.$fn$(...this.$args$) (lines
\* 395, 406): the function runs under the invocation context current at the
\* call and reads its input through `.value`.
computeFn(h, c) ==
  IF c \in Conditional
  THEN SecondRead(Signal2_get_value([h EXCEPT !.runs[c] = @ + 1], FnInput(c)), c)
  ELSE FnReturn(Signal2_get_value([h EXCEPT !.runs[c] = @ + 1], FnInput(c)), c)

\* ctx && (ctx.$effectSubscriber$ = [this, false]), line 323
BindEffectSubscriber(h, c) ==
  IF h.ctx.on
  THEN [NewSubscription(h, c, PropFalse) EXCEPT !.ctx.sub = Len(h.rec) + 1]
  ELSE h

\* A plausible slip: the computation stores its result and leaves $invalid$ set.
StoreComputed_KeepsInvalid(h, c) ==
  IF h.err THEN h
  ELSE [h EXCEPT !.did = (h.ret # h.val[c]),
                 !.val[c] = h.ret]

\* Lines 329-336: the result is stored, $invalid$ is cleared and didChange is
\* returned; an exception of the function skips all three.
StoreComputed(h, c) ==
  IF h.err THEN h
  ELSE [h EXCEPT !.invalid[c] = FALSE,
                 !.did = (h.ret # h.val[c]),
                 !.val[c] = h.ret]

\* A plausible slip: the subscriber is restored after the computation, with
\* no finally.
RestoreEffectSubscriber_OnReturn(h, previousEffectSubscription) ==
  IF h.err THEN h ELSE [h EXCEPT !.ctx.sub = previousEffectSubscription]

\* finally { if (ctx) ctx.$effectSubscriber$ = previousEffectSubscription }
RestoreEffectSubscriber(h, previousEffectSubscription) ==
  [h EXCEPT !.ctx.sub = previousEffectSubscription]

\* ComputedSignal2.$computeIfNeeded$, v2-signal.ts:310-342
ComputedSignal2_computeIfNeeded(h, c) ==
  IF ~h.invalid[c] THEN [h EXCEPT !.did = FALSE]
  ELSE RestoreEffectSubscriber(
         StoreComputed(computeFn(BindEffectSubscriber(h, c), c), c),
         h.ctx.sub)

\* The invocation context trackSignal2 runs fn under.
TrackingContext(h, d, property, cont) ==
  [NewSubscription(h, d, property) EXCEPT
     !.ctx = [on |-> TRUE, sub |-> Len(h.rec) + 1, host |-> NoHost, cont |-> cont]]

RestoreContext(h, previous) == [h EXCEPT !.ctx = previous]

\* trackSignal2(fn, subscriber, property, container) of use-core: runs fn
\* under an invocation context whose $effectSubscriber$ is the fresh array
\* [subscriber, property] and whose container is `container`, and restores
\* the previous context afterwards.
trackSignal2(h, d, property, cont) ==
  RestoreContext(computeFn(TrackingContext(h, d, property, cont), d), h.ctx)

\* this.$untrackedValue$ = <result of trackSignal2>, line 406; the method
\* then ends without a return statement (undefined).
StoreDerived(h, d) ==
  IF h.err THEN h
  ELSE [h EXCEPT !.val[d] = h.ret, !.did = FALSE]

\* DerivedSignal2.$computeIfNeeded$, v2-signal.ts:402-407: stores the result,
\* leaves $invalid$ as it is and returns undefined on the computing path.
DerivedSignal2_computeIfNeeded(h, d) ==
  IF ~h.invalid[d] THEN [h EXCEPT !.did = FALSE]
  ELSE StoreDerived(trackSignal2(h, d, PropFalse, h.cont[d]), d)

\* A plausible slip: the untracked getter subscribes like the tracked one.
Signal2_get_untrackedValue_Subscribing(h, s) ==
  IF h.ctx.on /\ h.ctx.sub # 0
  THEN [h EXCEPT !.eff[s] = ensureContains(@, h.ctx.sub),
                 !.rec[h.ctx.sub].deps = ensureContains(@, s),
                 !.ret = h.val[s]]
  ELSE [h EXCEPT !.ret = h.val[s]]

\* Signal2.get untrackedValue, v2-signal.ts:137-139
Signal2_get_untrackedValue(h, s) ==
  [h EXCEPT !.ret = h.val[s]]

\* assertFalse(this.$untrackedValue$ === NEEDS_COMPUTATION, 'Invalid state');
\* return this.$untrackedValue$ (lines 306-307 and 398-399)
ReturnComputed(h, s) ==
  IF h.err THEN h
  ELSE IF h.val[s] = NEEDS_COMPUTATION THEN AssertionFails(h)
  ELSE [h EXCEPT !.ret = h.val[s]]

\* ComputedSignal2.get untrackedValue, v2-signal.ts:304-308
ComputedSignal2_get_untrackedValue(h, c) ==
  ReturnComputed(ComputedSignal2_computeIfNeeded(h, c), c)

\* DerivedSignal2.get untrackedValue, v2-signal.ts:392-400
DerivedSignal2_get_untrackedValue(h, d) ==
  IF h.invalid[d] /\ h.cont[d] = Null
  THEN computeFn(h, d)
  ELSE ReturnComputed(DerivedSignal2_computeIfNeeded(h, d), d)

\* this.untrackedValue: the getter of the signal's class
get_untrackedValue(h, s) ==
  IF s \in Computed THEN ComputedSignal2_get_untrackedValue(h, s)
  ELSE IF s \in Derived THEN DerivedSignal2_get_untrackedValue(h, s)
  ELSE Signal2_get_untrackedValue(h, s)

\* A plausible slip: only the missing container is checked, not the mismatch.
ContainerAssertionFails_OnlyMissing(h, s) ==
  h.cont[s] = Null /\ h.ctx.cont = Null

\* Lines 144-153: one of the two assertions on the containers fails.
ContainerAssertionFails(h, s) ==
  \/ h.cont[s] = Null /\ h.ctx.cont = Null
  \/ h.cont[s] # Null /\ h.ctx.cont # Null /\ h.ctx.cont # h.cont[s]

\* Line 147: this.$container$ = ctx.$container2$, when it was null.
BindContainer(h, s) ==
  IF h.cont[s] = Null THEN [h EXCEPT !.cont[s] = h.ctx.cont] ELSE h

\* Lines 154-160: the subscriber is the context's $effectSubscriber$, or a new
\* array [host, true] when the context has only a host element, or none (0).
FromHost(h) == h.ctx.sub = 0 /\ h.ctx.host # NoHost
AllocateHostSubscriber(h) ==
  IF FromHost(h) THEN NewSubscription(h, h.ctx.host, PropTrue) ELSE h
effectSubscriberOf(h) ==
  IF FromHost(h) THEN Len(h.rec) + 1 ELSE h.ctx.sub

\* A plausible slip: the effect is subscribed, the back reference is left out.
Subscribe_NoBackReference(h, s, effectSubscriber) ==
  IF effectSubscriber # 0
  THEN [h EXCEPT !.eff[s] = ensureContains(@, effectSubscriber)]
  ELSE h

\* Lines 161-172: if (effectSubscriber) { ensureContains(effects,
\* effectSubscriber); ensureContains(effectSubscriber, this) }
Subscribe(h, s, effectSubscriber) ==
  IF effectSubscriber # 0
  THEN [h EXCEPT !.eff[s] = ensureContains(@, effectSubscriber),
                 !.rec[effectSubscriber].deps = ensureContains(@, s)]
  ELSE h

\* Lines 143-173: the body of `if (ctx)` once the assertions have passed.
TrackRead(h, s) ==
  Subscribe(AllocateHostSubscriber(h), s, effectSubscriberOf(h))

\* Signal2.get value, v2-signal.ts:141-175 (the getters of ComputedSignal2,
\* 345-347, and DerivedSignal2, 410-412, are super.value: the same code,
\* ending in the overridden untrackedValue)
Signal2_get_value(h, s) ==
  IF h.ctx.on /\ ContainerAssertionFails(h, s) THEN AssertionFails(h)
  ELSE get_untrackedValue(
         IF h.ctx.on THEN TrackRead(BindContainer(h, s), s) ELSE h, s)

\* this.$container$.$scheduler$(...): the call is made; the scheduler either
\* returns, and the call is on record, or throws (h.fails holds the positions
\* of the calls of the operation at which it throws).
scheduler(h, call) ==
  IF Len(h.calls) + 1 \in h.fails THEN Throw(h)
  ELSE [h EXCEPT !.calls = Append(@, call)]

\* The nested forEach of line 209 is a call inside a call: the walk of a
\* subscription graph holds one group of stack frames per signal on the path
\* from the changed signal. A path longer than the stack holds ends the
\* operation with a RangeError.
Call(h) == [h EXCEPT !.depth = @ + 1]
Return(h) == [h EXCEPT !.depth = @ - 1]
StackOverflow(h) == [Throw(h) EXCEPT !.overflow = TRUE]

RECURSIVE scheduleEffect(_, _, _, _)
RECURSIVE forEachEffect(_, _, _, _, _)

\* A plausible slip: the list is walked from its end.
forEachEffect_Reversed(h, this, signal, list, i) ==
  IF i > Len(list) \/ h.err THEN h
  ELSE forEachEffect(scheduleEffect(h, this, signal, list[Len(list) + 1 - i]),
                     this, signal, list, i + 1)

\* effects.forEach(scheduleEffect) from index i on, with the closure variable
\* `signal` of $triggerEffects$
forEachEffect(h, this, signal, list, i) ==
  IF i > Len(list) \/ h.err THEN h
  ELSE forEachEffect(scheduleEffect(h, this, signal, list[i]), this, signal, list, i + 1)

\* Lines 204-211: (effect).$invalid$ = true and, with `signal` set to the
\* effect, effect.$effects$?.forEach(scheduleEffect)
InvalidateEffect(h, effect) ==
  [h EXCEPT !.invalid[effect] = TRUE, !.walks[effect] = @ + 1]

\* A plausible slip (the TODO of line 194): a visible task is scheduled as a
\* chore of its own type, carrying the task.
scheduleEffect_TaskByKind(h, this, signal, r) ==
  IF h.cont[this] = Null THEN AssertionFails(h)
  ELSE IF h.rec[r].effect \in Tasks /\ HasFlag(h.flags[h.rec[r].effect], VISIBLE_TASK)
  THEN scheduler([h EXCEPT !.flags[h.rec[r].effect] = SetFlag(@, DIRTY)],
                 SchedulerCall("VISIBLE", 0, h.rec[r].effect, "", "", signal))
  ELSE IF h.rec[r].effect \in Tasks
  THEN scheduler([h EXCEPT !.flags[h.rec[r].effect] = SetFlag(@, DIRTY)],
                 SchedulerCall("TASK", r, "", "", "", signal))
  ELSE IF h.rec[r].effect \in Signals
  THEN IF h.depth >= MaxStack THEN StackOverflow(h)
       ELSE Return(forEachEffect(Call(InvalidateEffect(h, h.rec[r].effect)), this,
                                 h.rec[r].effect, h.eff[h.rec[r].effect], 1))
  ELSE IF h.rec[r].prop = PropTrue
  THEN scheduler(h, SchedulerCall("COMPONENT", 0, h.rec[r].effect, PropTrue, "", signal))
  ELSE IF h.rec[r].prop = PropFalse
  THEN scheduler(h, SchedulerCall("NODE_DIFF", 0, h.rec[r].effect, PropFalse, signal, signal))
  ELSE scheduler(h, SchedulerCall("NODE_PROP", 0, h.rec[r].effect, h.rec[r].prop, signal, signal))

\* A plausible slip: the nested walk is made without `signal = effect`.
scheduleEffect_KeepsOuterSignal(h, this, signal, r) ==
  IF h.cont[this] = Null THEN AssertionFails(h)
  ELSE IF h.rec[r].effect \in Tasks
  THEN scheduler([h EXCEPT !.flags[h.rec[r].effect] = SetFlag(@, DIRTY)],
                 SchedulerCall("TASK", r, "", "", "", signal))
  ELSE IF h.rec[r].effect \in Signals
  THEN IF h.depth >= MaxStack THEN StackOverflow(h)
       ELSE Return(forEachEffect(Call(InvalidateEffect(h, h.rec[r].effect)), this,
                                 signal, h.eff[h.rec[r].effect], 1))
  ELSE IF h.rec[r].prop = PropTrue
  THEN scheduler(h, SchedulerCall("COMPONENT", 0, h.rec[r].effect, PropTrue, "", signal))
  ELSE IF h.rec[r].prop = PropFalse
  THEN scheduler(h, SchedulerCall("NODE_DIFF", 0, h.rec[r].effect, PropFalse, signal, signal))
  ELSE scheduler(h, SchedulerCall("NODE_PROP", 0, h.rec[r].effect, h.rec[r].prop, signal, signal))

\* A plausible slip: the task is flagged, and no chore is asked for.
scheduleEffect_FlagOnly(h, this, signal, r) ==
  IF h.cont[this] = Null THEN AssertionFails(h)
  ELSE IF h.rec[r].effect \in Tasks
  THEN [h EXCEPT !.flags[h.rec[r].effect] = SetFlag(@, DIRTY)]
  ELSE IF h.rec[r].effect \in Signals
  THEN IF h.depth >= MaxStack THEN StackOverflow(h)
       ELSE Return(forEachEffect(Call(InvalidateEffect(h, h.rec[r].effect)), this,
                                 h.rec[r].effect, h.eff[h.rec[r].effect], 1))
  ELSE IF h.rec[r].prop = PropTrue
  THEN scheduler(h, SchedulerCall("COMPONENT", 0, h.rec[r].effect, PropTrue, "", signal))
  ELSE IF h.rec[r].prop = PropFalse
  THEN scheduler(h, SchedulerCall("NODE_DIFF", 0, h.rec[r].effect, PropFalse, signal, signal))
  ELSE scheduler(h, SchedulerCall("NODE_PROP", 0, h.rec[r].effect, h.rec[r].prop, signal, signal))

\* scheduleEffect, the closure of Signal2.$triggerEffects$, v2-signal.ts:188-226
scheduleEffect(h, this, signal, r) ==
  IF h.cont[this] = Null THEN AssertionFails(h)
  ELSE IF h.rec[r].effect \in Tasks
  THEN scheduler([h EXCEPT !.flags[h.rec[r].effect] = SetFlag(@, DIRTY)],
                 SchedulerCall("TASK", r, "", "", "", signal))
  ELSE IF h.rec[r].effect \in Signals
  THEN IF h.depth >= MaxStack THEN StackOverflow(h)
       ELSE Return(forEachEffect(Call(InvalidateEffect(h, h.rec[r].effect)), this,
                                 h.rec[r].effect, h.eff[h.rec[r].effect], 1))
  ELSE IF h.rec[r].prop = PropTrue
  THEN scheduler(h, SchedulerCall("COMPONENT", 0, h.rec[r].effect, PropTrue, "", signal))
  ELSE IF h.rec[r].prop = PropFalse
  THEN scheduler(h, SchedulerCall("NODE_DIFF", 0, h.rec[r].effect, PropFalse, signal, signal))
  ELSE scheduler(h, SchedulerCall("NODE_PROP", 0, h.rec[r].effect, h.rec[r].prop, signal, signal))

\* Signal2.$triggerEffects$, v2-signal.ts:185-231
triggerEffects(h, s) ==
  forEachEffect(h, s, s, h.eff[s], 1)

\* A plausible slip: the setter leaves out the comparison with the old value.
Signal2_set_value_NoEqualityCheck(h, s, value) ==
  triggerEffects([h EXCEPT !.val[s] = value], s)

\* Signal2.set value, v2-signal.ts:177-183
Signal2_set_value(h, s, value) ==
  IF value # h.val[s]
  THEN triggerEffects([h EXCEPT !.val[s] = value], s)
  ELSE h

\* A plausible slip: the setter of a computed signal is inherited from Signal2.
ComputedSignal2_set_value_Inherited(h, c, value) ==
  Signal2_set_value(h, c, value)

\* ComputedSignal2.set value, v2-signal.ts:349-351:
\* throw new TypeError('ComputedSignal is read-only')
ComputedSignal2_set_value(h, c, value) ==
  Throw(h)

\* DerivedSignal2.set value, v2-signal.ts:414-416:
\* throw new TypeError('DerivedSignal is read-only')
DerivedSignal2_set_value(h, d, value) ==
  Throw(h)

\* if (this.$computeIfNeeded$()) { this.$triggerEffects$() }, lines 290-292
\* and 378-380
TriggerIfChanged(h, c) ==
  IF h.err THEN h
  ELSE IF h.did THEN triggerEffects(h, c)
  ELSE h

\* A plausible slip: the dependents are triggered whether or not the
\* recomputed value differs.
ComputedSignal2_invalidate_AlwaysTriggers(h, c) ==
  IF Len(h.eff[c]) = 0 THEN [h EXCEPT !.invalid[c] = TRUE]
  ELSE triggerEffects(
         ComputedSignal2_computeIfNeeded([h EXCEPT !.invalid[c] = TRUE], c), c)

\* ComputedSignal2.$invalidate$, v2-signal.ts:282-293
ComputedSignal2_invalidate(h, c) ==
  IF Len(h.eff[c]) = 0 THEN [h EXCEPT !.invalid[c] = TRUE]
  ELSE TriggerIfChanged(
         ComputedSignal2_computeIfNeeded([h EXCEPT !.invalid[c] = TRUE], c), c)

\* DerivedSignal2.$invalidate$, v2-signal.ts:370-381
DerivedSignal2_invalidate(h, d) ==
  IF Len(h.eff[d]) = 0 THEN [h EXCEPT !.invalid[d] = TRUE]
  ELSE TriggerIfChanged(
         DerivedSignal2_computeIfNeeded([h EXCEPT !.invalid[d] = TRUE], d), d)

\* A plausible slip: force() recomputes and propagates only on a change.
force_OnlyIfChanged(h, c) ==
  IF c \in Computed
  THEN TriggerIfChanged(
         ComputedSignal2_computeIfNeeded([h EXCEPT !.invalid[c] = TRUE], c), c)
  ELSE TriggerIfChanged(
         DerivedSignal2_computeIfNeeded([h EXCEPT !.invalid[c] = TRUE], c), c)

\* ComputedSignal2.force (299-302) and DerivedSignal2.force (387-390)
force(h, c) ==
  triggerEffects([h EXCEPT !.invalid[c] = TRUE], c)

(***************************************************************************)
(* The state machine: one action per operation a caller can perform.       *)
(***************************************************************************)
NoRuns == [c \in Computed \cup Derived |-> 0]
NoWalks == [s \in Signals |-> 0]

\* The heap at the start of an operation performed under context ctx.
Heap(ctx) ==
  [val |-> untrackedValue, invalid |-> invalid, eff |-> effects, rec |-> subs,
   cont |-> container, flags |-> flags, ctx |-> ctx,
   calls |-> <<>>, runs |-> NoRuns, walks |-> NoWalks, fails |-> {},
   depth |-> 0, overflow |-> FALSE,
   ret |-> NEEDS_COMPUTATION, did |-> FALSE, err |-> FALSE]

\* What the caller's context offers to a tracked read: nothing ("none": no
\* context at all, "bare": neither subscriber nor host), its
\* $effectSubscriber$ ("sub") or only its $hostElement$ ("host").
CtxKind(ctx) ==
  IF ~ctx.on THEN "none"
  ELSE IF ctx.sub # 0 THEN "sub"
  ELSE IF ctx.host # NoHost THEN "host"
  ELSE "bare"

\* The record of an operation: the call, its result, and whether the
\* invocation context after it is the one it was called with, and whether it
\* ended by exhausting the call stack.
Operation(op, sig, ctx, arg, h) ==
  [op |-> op, sig |-> sig, ctx |-> CtxKind(ctx), cont |-> ctx.cont, arg |-> arg,
   ret |-> IF h.err THEN NEEDS_COMPUTATION ELSE h.ret, err |-> h.err,
   restored |-> (h.ctx = ctx), overflow |-> h.overflow]

\* The operation ends: its effects on the objects become the new state.
Commit(op, sig, ctx, arg, h) ==
  /\ Len(h.rec) <= NCaller + MaxSubs
  /\ program' = program
  /\ untrackedValue' = h.val
  /\ invalid' = h.invalid
  /\ effects' = h.eff
  /\ subs' = h.rec
  /\ container' = h.cont
  /\ flags' = h.flags
  /\ calls' = h.calls
  /\ runs' = h.runs
  /\ walks' = h.walks
  /\ lastOp' = Operation(op, sig, ctx, arg, h)
  /\ UNCHANGED taskVars
  /\ UNCHANGED schedulerVars
  /\ UNCHANGED localeVars

\* The scheduler has nothing to do and no trigger has fired.
NoFlush == [active |-> FALSE, cascaded |-> FALSE, awaited |-> FALSE, running |-> "",
            writes |-> "none", by |-> "none", ran |-> [t \in Tasks |-> 0]]
NoSchedulerActivity ==
  /\ queue = <<>>
  /\ flush = NoFlush
  /\ triggered = [t \in Tasks |-> FALSE]

\* Requests: asynchronous flows of control that use the locale.
Requests == {"r1", "r2"}
\* No request has begun, _locale is as declared (use-locale.ts:5), and the
\* AsyncLocalStorage is not defined (as in the browser, line 7).
NoLocaleActivity ==
  /\ _locale = Undefined
  /\ localAsyncStore = FALSE
  /\ requests = [r \in Requests |-> [frames |-> <<>>, steps |-> 0, throws |-> 0,
                                     throwing |-> FALSE]]
  /\ running = "none"
  /\ lastGet = [r |-> "none", ctx |-> Undefined, defaultLocale |-> Undefined,
                result |-> Undefined]

\* No task has been created: no destroy thunk, no run, no chore.
NoTaskActivity ==
  /\ destroy = [t \in Tasks |-> 0]
  /\ cleanupFns = [r \in 1..MaxRuns |-> <<>>]
  /\ fired = [r \in 1..MaxRuns |-> 0]
  /\ nrun = 0
  /\ events = <<>>
  /\ chore = [state |-> "idle", via |-> "none"]
  /\ pending = [t \in Tasks |-> "none"]

\* new Signal2(null, value), new ComputedSignal2(null, qrl), new
\* DerivedSignal2(null, fn, args, fnStr) (lines 131-135, 272-280, 361-368).
\* T2 is fresh from useTaskQrl, new Task(DIRTY | TASK, ...) (use-task.ts:146-153);
\* T1 is a task of the application's kind that has run before (runTask
\* cleared DIRTY, use-task.ts:171).
Init ==
  /\ program \in Programs
  /\ untrackedValue = [s \in Signals |-> IF s \in Plain THEN 0 ELSE NEEDS_COMPUTATION]
  /\ invalid = [c \in Computed \cup Derived |-> TRUE]
  /\ effects = [s \in Signals |-> <<>>]
  /\ subs = CallerSubs
  /\ container = [s \in Signals |-> Null]
  /\ flags = [t \in Tasks |-> IF t = "T1" THEN TaskKind(program) ELSE DIRTY + TASK]
  /\ calls = <<>>
  /\ runs = NoRuns
  /\ walks = NoWalks
  /\ lastOp = [op |-> "new", sig |-> "", ctx |-> "none", cont |-> Null, arg |-> 0,
               ret |-> NEEDS_COMPUTATION, err |-> FALSE, restored |-> TRUE,
               overflow |-> FALSE]
  /\ NoTaskActivity
  /\ rethrows = FALSE
  /\ NoSchedulerActivity
  /\ NoLocaleActivity

\* x = s.value
ReadValue ==
  \E s \in Signals, ctx \in Contexts :
    /\ MayRead(program, ctx, s)
    /\ Commit("value", s, ctx, 0, Signal2_get_value(Heap(ctx), s))

\* x = s.untrackedValue
ReadUntracked ==
  \E s \in Signals, ctx \in Contexts :
    /\ MayRead(program, ctx, s)
    /\ Commit("untrackedValue", s, ctx, 0, get_untrackedValue(Heap(ctx), s))

\* s.value = v
SetValue ==
  \E s \in Plain \cap Uses(program), v \in Values :
    Commit("set", s, NoCtx, v, Signal2_set_value(Heap(NoCtx), s, v))

\* s.value = v while the scheduler throws at its k-th call of the operation:
\* the exception leaves $triggerEffects$ and the setter.
SetValueSchedulerThrows ==
  \E s \in Plain \cap Uses(program), v \in Values, k \in 1..MaxFail :
    /\ Signal2_set_value([Heap(NoCtx) EXCEPT !.fails = {k}], s, v).err
    /\ ~Signal2_set_value([Heap(NoCtx) EXCEPT !.fails = {k}], s, v).overflow
    /\ Commit("setThrows", s, NoCtx, v,
              Signal2_set_value([Heap(NoCtx) EXCEPT !.fails = {k}], s, v))

\* The values assigned to read-only signals: one that a computed signal of
\* the model can hold (0) and one that `double` never holds (1).
ReadOnlyArgs == {0, 1}

\* c.value = v on a computed or derived signal
SetReadOnlyValue ==
  \E c \in (Computed \cup Derived) \cap Uses(program), v \in ReadOnlyArgs :
    Commit("setReadOnly", c, NoCtx, v,
           IF c \in Computed THEN ComputedSignal2_set_value(Heap(NoCtx), c, v)
           ELSE DerivedSignal2_set_value(Heap(NoCtx), c, v))

\* c.$invalidate$()
Invalidate ==
  \E c \in (Computed \cup Derived) \cap Uses(program),
     ctx \in {NoCtx} \cup {BareCtx(k) : k \in ContainersOf(program) \ {Null}} :
    Commit("invalidate", c, ctx, 0,
           IF c \in Computed THEN ComputedSignal2_invalidate(Heap(ctx), c)
           ELSE DerivedSignal2_invalidate(Heap(ctx), c))

\* c.force()
Force ==
  \E c \in (Computed \cup Derived) \cap Uses(program) :
    Commit("force", c, NoCtx, 0, force(Heap(NoCtx), c))

Next ==
  \/ ReadValue
  \/ ReadUntracked
  \/ SetValue
  \/ SetValueSchedulerThrows
  \/ SetReadOnlyValue
  \/ Invalidate
  \/ Force

Spec == Init /\ [][Next]_vars

(***************************************************************************)
(* Task execution, use-task.ts. The operations are functions on the heap   *)
(* record of the signal operations, extended with                          *)
(*   destroy, fns, fired, nrun   the task's fields and runTask's closures  *)
(*   rethrows  the policy of container.handleError                         *)
(*   ev        what the operation did so far                               *)
(*   exc       the exception that propagates while err holds               *)
(*   result    what the task body returned                                 *)
(*   out       what runTask returned: "done" a settled value, "awaitBody"  *)
(*             or "awaitSuspense" a promise that is still pending          *)
(*   removed   the local subscriptionRemoved of the dependency sweep       *)
(***************************************************************************)
\* The task programs: what the bodies of task T1 do.
\*   "cleanup": the bodies register cleanup functions and return one;
\*   "track":   the bodies call track(fn), track(a), track(store) or
\*              track(store, prop) once;
\*   "async":   the bodies throw, suspend or return a promise.
TaskPrograms == {"cleanup", "track", "async"}

\* The host of the tasks (Task.$el$) and the container they run in.
HostOf(task) == "H"
TaskContainer == "c1"

\* Cleanup functions: f and r return, g throws the error "G"; r is the
\* function a body returns. Undefined is what a body returns otherwise.
CleanupFns == {"f", "g", "r"}
Throws(fn) == fn = "g"
ErrorOf(fn) == "G"
\* The error a body throws, the promise it throws to suspend, and
\* qError(QError.trackObjectWithoutProp).
BodyError == "E"
ThrownPromise == "P"
TrackObjectWithoutProp == "trackObjectWithoutProp"
isPromise(x) == x = ThrownPromise

\* Arguments of track: a reader function () => a.value, the signal a, a
\* store; no property name, the name "p" and the empty name "".
TrackFn == "fn"
Store == "store"
NoProp == "undefined"
PropNames == {"p", ""}
\* if (prop): undefined and the empty string are falsy
Truthy(prop) == prop # NoProp /\ prop # ""
\* store = { p: 1, "": 2 }
StoreValue(prop) == IF prop = "p" THEN 1 ELSE 2

\* a.value = WrittenValue in the body of a task
WrittenValue == 1

\* One step of a body, and a body: its steps up to the first await, and how
\* it ends: "return" (undefined), "returnFn" (the function r), "throw"
\* (BodyError), "suspend" (throws ThrownPromise), "async" (returns a promise).
CleanupStep(fn) == [op |-> "cleanup", x |-> fn, p |-> NoProp]
TrackStep(obj, prop) == [op |-> "track", x |-> obj, p |-> prop]
Body(steps, end) == [steps |-> steps, end |-> end]
Bodies(prog) ==
  IF prog = "cleanup"
  THEN { Body(<<TrackStep("a", NoProp), CleanupStep("f"), CleanupStep("g")>>, "return"),
         Body(<<TrackStep(TrackFn, NoProp), CleanupStep("g"), CleanupStep("f")>>, "returnFn"),
         Body(<<TrackStep("a", NoProp)>>, "returnFn"),
         Body(<<CleanupStep(Undefined)>>, "return") }
  ELSE IF prog = "track"
  THEN { Body(<<TrackStep(obj, NoProp)>>, "return") : obj \in {TrackFn, "a", Store} }
       \cup { Body(<<TrackStep(Store, prop)>>, "return") : prop \in PropNames }
  ELSE { Body(<<TrackStep("a", NoProp), CleanupStep("f")>>, end) :
           end \in {"return", "throw", "suspend", "async"} }

\* How the promise of an async body settles: fulfilled with undefined or
\* with the function r, rejected with BodyError or with ThrownPromise.
Settlements ==
  { [how |-> "fulfil", x |-> Undefined], [how |-> "fulfil", x |-> "r"],
    [how |-> "reject", x |-> BodyError], [how |-> "reject", x |-> ThrownPromise] }

\* getSubscriber(task, EffectProperty.COMPONENT): the task's subscription array.
getSubscriber(task) == IF task = "T1" THEN 1 ELSE 2

Event(h, e, x, p, v) ==
  [h EXCEPT !.ev = Append(@, [e |-> e, x |-> x, p |-> p, v |-> v])]
\* throw x, and the end of a catch clause
TaskThrow(h, x) == [h EXCEPT !.err = TRUE, !.exc = x]
Caught(h) == [h EXCEPT !.err = FALSE, !.exc = ""]

\* container.handleError(reason, host): the container reports the error and,
\* depending on the renderer's policy, rethrows it.
handleError(h, reason, host) ==
  IF h.rethrows
  THEN TaskThrow(Event(h, "handleError", reason, host, 0), reason)
  ELSE Event(h, "handleError", reason, host, 0)

\* try { fn() } catch (err) { handleError(err) }, use-task.ts:205-209, in the
\* thunk of run r
tryCleanupFn(h, task, r, fn) ==
  IF Throws(fn)
  THEN handleError(Event(h, "cleanup", fn, NoProp, r), ErrorOf(fn), HostOf(task))
  ELSE Event(h, "cleanup", fn, NoProp, r)

RECURSIVE forEachCleanupFn(_, _, _, _, _)
\* cleanupFns.forEach(...) from index i on, use-task.ts:204-210
forEachCleanupFn(h, task, r, list, i) ==
  IF i > Len(list) \/ h.err THEN h
  ELSE forEachCleanupFn(tryCleanupFn(h, task, r, list[i]), task, r, list, i + 1)

\* The destroy thunk of run r, use-task.ts:202-211
destroyThunk(h, task, r) ==
  forEachCleanupFn([h EXCEPT !.destroy[task] = 0, !.fired[r] = @ + 1],
                   task, r, h.fns[r], 1)

\* catch (err) { logError(err) }, use-task.ts:241-243
logErrorIfThrown(h) ==
  IF h.err THEN Event(Caught(h), "logError", h.exc, NoProp, 0) ELSE h

\* cleanupTask(task), use-task.ts:235-245
cleanupTask(h, task) ==
  IF h.destroy[task] # 0
  THEN logErrorIfThrown(
         destroyThunk([h EXCEPT !.destroy[task] = 0], task, h.destroy[task]))
  ELSE h

\* cleanup(fn) of run r, use-task.ts:198-215
cleanup(h, task, r, fn) ==
  IF fn \in CleanupFns
  THEN [h EXCEPT !.destroy[task] = IF h.fns[r] = <<>> THEN r ELSE @,
                 !.fns[r] = Append(@, fn)]
  ELSE h

\* array.splice(i, 1)
Splice(array, i) == SubSeq(array, 1, i - 1) \o SubSeq(array, i + 1, Len(array))

\* A plausible slip: the first subscription of value is removed, as by
\* indexOf and splice.
clearEffects_RemovesFirstOnly(h, s, value, i) ==
  IF \E k \in 1..i : h.rec[h.eff[s][k]].effect = value
  THEN [h EXCEPT !.eff[s] = Splice(@, CHOOSE k \in 1..i :
                                        /\ h.rec[h.eff[s][k]].effect = value
                                        /\ \A n \in 1..(k - 1) : h.rec[h.eff[s][n]].effect # value),
                 !.removed = TRUE]
  ELSE h

\* A plausible slip: the loop runs from the first index up and, after a
\* splice, moves on to the next index, which skips the element that took the
\* place of the removed one.
RECURSIVE ForwardFrom(_, _, _, _)
ForwardFrom(h, s, value, i) ==
  IF i > Len(h.eff[s]) THEN h
  ELSE ForwardFrom(
         IF h.rec[h.eff[s][i]].effect = value
         THEN [h EXCEPT !.eff[s] = Splice(@, i), !.removed = TRUE]
         ELSE h,
         s, value, i + 1)
clearEffects_ForwardLoop(h, s, value, i) == ForwardFrom(h, s, value, 1)

RECURSIVE clearEffects(_, _, _, _)
\* clearEffects(subscriber, value), run-qwik-client-command.ts:54-71: the loop
\* from index i down over the $effects$ of signal s
clearEffects(h, s, value, i) ==
  IF i < 1 THEN h
  ELSE clearEffects(
         IF h.rec[h.eff[s][i]].effect = value
         THEN [h EXCEPT !.eff[s] = Splice(@, i), !.removed = TRUE]
         ELSE h,
         s, value, i - 1)

\* Lines 46-49: if (subscriptionRemoved) value.$effectDependencies$.splice(i, 1)
SpliceDependency(h, r, i) ==
  IF h.removed THEN [h EXCEPT !.rec[r].deps = Splice(@, i)] ELSE h

RECURSIVE clearSubscriberEffectDependencies(_, _, _)
\* clearSubscriberEffectDependencies(value), run-qwik-client-command.ts:42-52:
\* the loop from index i down over the dependencies of the task
clearSubscriberEffectDependencies(h, task, i) ==
  IF i < 1 THEN h
  ELSE clearSubscriberEffectDependencies(
         SpliceDependency(
           clearEffects([h EXCEPT !.removed = FALSE],
                        h.rec[getSubscriber(task)].deps[i], task,
                        Len(h.eff[h.rec[getSubscriber(task)].deps[i]])),
           getSubscriber(task), i),
         task, i - 1)

\* The vnode property QSubscribers of a host is not written by the sources:
\* it is taken to list the signals the subscriptions of the host depend on.
\* effects.splice(i, 1), run-qwik-client-command.ts:36-38, on that list:
SpliceSubscriber(h, value, s) ==
  IF h.removed
  THEN [h EXCEPT !.rec = [r \in DOMAIN @ |->
          IF @[r].effect = value
          THEN [@[r] EXCEPT !.deps = SelectSeq(@, LAMBDA d : d # s)]
          ELSE @[r]]]
  ELSE h

RECURSIVE clearVNodeEffectDependencies(_, _, _, _)
\* clearVNodeEffectDependencies(container, value),
\* run-qwik-client-command.ts:28-40: the loop from index i down over the
\* list read from the vnode
clearVNodeEffectDependencies(h, value, subscribers, i) ==
  IF i < 1 THEN h
  ELSE clearVNodeEffectDependencies(
         SpliceSubscriber(
           clearEffects([h EXCEPT !.removed = FALSE], subscribers[i], value,
                        Len(h.eff[subscribers[i]])),
           value, subscribers[i]),
         value, subscribers, i - 1)

\* The beforeFn passed to getFn, use-task.ts:175-177
beforeFn(h, task) ==
  clearSubscriberEffectDependencies(h, task, Len(h.rec[getSubscriber(task)].deps))

\* obj[prop]: a store reports the read to the current subscriber; any other
\* object has no such property.
ReadProp(h, obj, prop) ==
  IF obj = Store
  THEN [Event(h, "storeRead", obj, prop, h.ctx.sub) EXCEPT !.ret = StoreValue(prop)]
  ELSE [h EXCEPT !.ret = NEEDS_COMPUTATION]

\* The function given to invoke, use-task.ts:183-194
trackRead(h, obj, prop) ==
  IF obj = TrackFn THEN Signal2_get_value(h, "a")
  ELSE IF Truthy(prop) THEN ReadProp(h, obj, prop)
  ELSE IF obj \in Signals THEN Signal2_get_value(h, obj)
  ELSE TaskThrow(h, TrackObjectWithoutProp)

\* invoke(ctx, fn): fn runs under ctx, then the previous context is back.
invoke(h, ctx, obj, prop) ==
  [trackRead([h EXCEPT !.ctx = ctx], obj, prop) EXCEPT !.ctx = h.ctx]

\* What track hands back to the body.
Tracked(h, obj, prop) ==
  IF h.err THEN h ELSE Event(h, "track", obj, prop, h.ret)

\* track(obj, prop), use-task.ts:179-195
track(h, task, obj, prop) ==
  Tracked(invoke(Event(h, "trackCall", obj, prop, 0),
                 SubCtx(getSubscriber(task), TaskContainer), obj, prop),
          obj, prop)

\* One statement of the body of run r.
Statement(h, task, r, st) ==
  IF st.op = "cleanup" THEN cleanup(h, task, r, st.x)
  ELSE IF st.op = "set" THEN Signal2_set_value(h, st.x, WrittenValue)
  ELSE track(h, task, st.x, st.p)

RECURSIVE Statements(_, _, _, _, _)
Statements(h, task, r, steps, i) ==
  IF i > Len(steps) \/ h.err THEN h
  ELSE Statements(Statement(h, task, r, steps[i]), task, r, steps, i + 1)

\* How the body ends, unless a statement threw.
BodyEnd(h, end) ==
  IF h.err THEN h
  ELSE IF end = "throw" THEN TaskThrow(h, BodyError)
  ELSE IF end = "suspend" THEN TaskThrow(h, ThrownPromise)
  ELSE [h EXCEPT !.result = end]

\* taskFn(taskApi), use-task.ts:219: beforeFn, then the body
taskFn(h, task, body) ==
  BodyEnd(Statements(Event(beforeFn(h, task), "body", task, NoProp, h.nrun),
                     task, h.nrun, body.steps, 1),
          body.end)

\* A plausible slip: every thrown value is taken for a suspension.
rejectFn_AlwaysRetries(h, err) ==
  [Caught(h) EXCEPT !.out = "awaitSuspense"]

\* A plausible slip: an error that is no promise is dropped instead of
\* thrown on.
rejectFn_Swallows(h, err) ==
  IF isPromise(err) THEN [Caught(h) EXCEPT !.out = "awaitSuspense"]
  ELSE [Caught(h) EXCEPT !.out = "done"]

\* The rejectFn given to safeCall, use-task.ts:221-228
rejectFn(h, err) ==
  IF isPromise(err) THEN [Caught(h) EXCEPT !.out = "awaitSuspense"]
  ELSE TaskThrow(h, err)

\* The value of a settled body handed to thenFn.
ResultValue(result) == IF result = "returnFn" THEN "r" ELSE Undefined

\* safeCall(call, thenFn, rejectFn) once call() has ended: a thrown value goes
\* to rejectFn, a promise is chained, any other value goes to thenFn.
safeCall(h, task) ==
  IF h.err THEN rejectFn(Event(h, "bodyThrew", h.exc, NoProp, h.nrun), h.exc)
  ELSE IF h.result = "async" THEN [h EXCEPT !.out = "awaitBody"]
  ELSE [cleanup(h, task, h.nrun, ResultValue(h.result)) EXCEPT !.out = "done"]

\* Lines 171-172 of runTask: the flag, then the previous run's cleanup.
StartRun(h, task) ==
  cleanupTask(
    Event([h EXCEPT !.flags[task] = ClearFlag(@, DIRTY), !.nrun = @ + 1],
          "runTask", task, HostOf(task), h.nrun + 1),
    task)

\* runTask(task, container, host), use-task.ts:166-231
runTask(h, task, body) ==
  safeCall(taskFn(StartRun(h, task), task, body), task)

(***************************************************************************)
(* The state machine of the tasks: the hook, the scheduler executing the   *)
(* task's chore, promises settling, a signal changing, the host going away.*)
(***************************************************************************)
\* The heap at the start of a task operation.
TaskHeap ==
  Heap(NoCtx) @@
  [destroy |-> destroy, fns |-> cleanupFns, fired |-> fired, nrun |-> nrun,
   rethrows |-> rethrows, ev |-> <<>>, exc |-> "", result |-> "", out |-> "",
   removed |-> FALSE]

\* The scheduler, once runTask has thrown or the promise it returned has
\* rejected: the error goes to container.handleError(err, host). Whatever the
\* handler throws ends in the scheduler's promise, which useTaskQrl catches
\* and drops (use-task.ts:160-163).
ChoreResult(h, task) ==
  IF h.err THEN [handleError(Caught(h), h.exc, HostOf(task)) EXCEPT !.out = "failed"]
  ELSE h

\* What the chore waits for after the operation ("" when the operation was
\* none of the chore's).
Awaits(h) ==
  IF h.out = "" THEN chore.state
  ELSE IF h.out \in {"awaitBody", "awaitSuspense", "removed"} THEN h.out
  ELSE "idle"

\* The operation ends: its effects on the objects become the new state.
TaskCommit(h, via, waiting) ==
  /\ program' = program
  /\ untrackedValue' = h.val
  /\ invalid' = h.invalid
  /\ effects' = h.eff
  /\ subs' = h.rec
  /\ container' = h.cont
  /\ flags' = h.flags
  /\ calls' = h.calls
  /\ runs' = h.runs
  /\ walks' = h.walks
  /\ lastOp' = lastOp
  /\ destroy' = h.destroy
  /\ cleanupFns' = h.fns
  /\ fired' = h.fired
  /\ nrun' = h.nrun
  /\ events' = h.ev
  /\ chore' = [state |-> Awaits(h), via |-> via]
  /\ pending' = waiting
  /\ rethrows' = rethrows
  /\ UNCHANGED schedulerVars
  /\ UNCHANGED localeVars

\* The component of host H has not rendered yet: the signal exists, the
\* tasks do not (their flags are 0 until useTaskQrl creates them).
TaskInit ==
  /\ program \in TaskPrograms
  /\ untrackedValue = [s \in Signals |-> IF s \in Plain THEN 0 ELSE NEEDS_COMPUTATION]
  /\ invalid = [c \in Computed \cup Derived |-> TRUE]
  /\ effects = [s \in Signals |-> <<>>]
  /\ subs = CallerSubs
  /\ container = [s \in Signals |-> Null]
  /\ flags = [t \in Tasks |-> 0]
  /\ calls = <<>>
  /\ runs = NoRuns
  /\ walks = NoWalks
  /\ lastOp = [op |-> "new", sig |-> "", ctx |-> "none", cont |-> Null, arg |-> 0,
               ret |-> NEEDS_COMPUTATION, err |-> FALSE, restored |-> TRUE,
               overflow |-> FALSE]
  /\ NoTaskActivity
  /\ rethrows \in BOOLEAN
  /\ NoSchedulerActivity
  /\ NoLocaleActivity

\* A suspended run is retried by another runTask: the bodies suspend only
\* while the model has a run left for the retry.
CanRun(body) == body.end = "suspend" => nrun + 1 < MaxRuns

\* useTaskQrl(qrl), use-task.ts:138-164, on the first render of the component
useTaskQrl(h, task) ==
  [h EXCEPT !.flags[task] = DIRTY + TASK,
            !.calls = Append(@, SchedulerCall("TASK", getSubscriber(task), "", "", "", ""))]

TaskHook ==
  /\ flags["T1"] = 0
  /\ TaskCommit(useTaskQrl(TaskHeap, "T1"), chore.via, [pending EXCEPT !["T1"] = "hook"])

\* The scheduler takes the task's chore and calls runTask.
ExecuteChore ==
  /\ chore.state = "idle"
  /\ pending["T1"] # "none"
  /\ nrun < MaxRuns
  /\ \E body \in Bodies(program) :
       /\ CanRun(body)
       /\ TaskCommit(ChoreResult(runTask(TaskHeap, "T1", body), "T1"),
                     pending["T1"], [pending EXCEPT !["T1"] = "none"])

\* promise.then(thenFn, rejectFn) of safeCall, when the body's promise settles
BodySettled(h, task, s) ==
  IF s.how = "fulfil" THEN [cleanup(h, task, h.nrun, s.x) EXCEPT !.out = "done"]
  ELSE rejectFn(Event(h, "bodyRejected", s.x, NoProp, h.nrun), s.x)

BodySettles ==
  /\ chore.state = "awaitBody"
  /\ \E s \in Settlements :
       /\ s.x = ThrownPromise => nrun < MaxRuns
       /\ TaskCommit(ChoreResult(BodySettled(TaskHeap, "T1", s), "T1"), chore.via, pending)

\* err.then(() => runTask(task, container, host)), use-task.ts:224, when the
\* thrown promise settles: fulfilled, the callback runs; rejected, the
\* promise returned by then rejects with the same reason.
SuspenseSettled(h, task, how, body) ==
  IF how = "fulfil" THEN runTask(h, task, body) ELSE TaskThrow(h, BodyError)

SuspenseSettles ==
  /\ chore.state = "awaitSuspense"
  /\ nrun < MaxRuns
  /\ \E how \in {"fulfil", "reject"}, body \in Bodies(program) :
       /\ CanRun(body)
       /\ TaskCommit(ChoreResult(SuspenseSettled(TaskHeap, "T1", how, body), "T1"),
                     IF how = "fulfil" THEN "retry" ELSE chore.via, pending)

\* The TASK chores the signal code enqueued for the task.
Enqueued(h, task) ==
  \E i \in DOMAIN h.calls :
    h.calls[i].type = "TASK" /\ h.calls[i].sub = getSubscriber(task)

\* a.value = v in an event handler
TaskSetValue ==
  /\ flags["T1"] # 0
  /\ chore.state # "removed"
  /\ \E v \in Values :
       TaskCommit(Signal2_set_value(TaskHeap, "a", v), chore.via,
                  IF Enqueued(Signal2_set_value(TaskHeap, "a", v), "T1")
                  THEN [pending EXCEPT !["T1"] = "signal"] ELSE pending)

\* The host is removed from the tree: the renderer calls cleanupTask(task).
Unmounted(h) == [h EXCEPT !.out = "removed"]
RemoveHost ==
  /\ flags["T1"] # 0
  /\ chore.state = "idle"
  /\ TaskCommit(Unmounted(cleanupTask(TaskHeap, "T1")), chore.via,
                [pending EXCEPT !["T1"] = "none"])

TaskNext ==
  \/ TaskHook
  \/ ExecuteChore
  \/ BodySettles
  \/ SuspenseSettles
  \/ TaskSetValue
  \/ RemoveHost

TaskSpec == TaskInit /\ [][TaskNext]_vars

\* The conditions under which ExecuteChore, BodySettles and SuspenseSettles
\* can be taken (their guards; the program has a body that does not suspend,
\* and a promise can be fulfilled).
MayExecuteChore == chore.state = "idle" /\ pending["T1"] # "none" /\ nrun < MaxRuns
MayBodySettle == chore.state = "awaitBody"
MaySuspenseSettle == chore.state = "awaitSuspense" /\ nrun < MaxRuns

\* The scheduler executes a chore that waits, once the chore before it has
\* ended, and the promises of the bodies settle: weak fairness of the three
\* actions, WF_vars(A) written as []<>~ENABLED <<A>>_vars \/ []<><<A>>_vars
\* with the guard of A for ENABLED.
TaskFairSpec ==
  /\ TaskSpec
  /\ []<>~MayExecuteChore \/ []<><<ExecuteChore>>_vars
  /\ []<>~MayBodySettle \/ []<><<BodySettles>>_vars
  /\ []<>~MaySuspenseSettle \/ []<><<SuspenseSettles>>_vars

(***************************************************************************)
(* The scheduler. Its code (shared/scheduler) is not among the sources: it *)
(* is modelled from the specification, sections 3 and 5. The calls made to *)
(* it are those of the sources: $triggerEffects$, useTaskQrl, scheduleTask;*)
(* what a TASK chore executes is runTask.                                  *)
(***************************************************************************)
\* The applications the scheduler is run on, each a component on host H:
\*   "coalesce":  the attribute "p" of H is bound to an expression over a and
\*                double, a text node of H to double;
\*   "visible":   the component reads a and has a visible task T1 that
\*                tracks a;
\*   "twins":     tasks T1 and T2 both track a, the body of T1 is asynchronous;
\*   "dependant": task T1 tracks a, task T2 writes a.
SchedulerPrograms == {"coalesce", "visible", "twins", "dependant"}
VisibleTasks(prog) == IF prog = "visible" THEN {"T1"} ELSE {}
TaskBody(prog, task) ==
  IF prog = "twins" /\ task = "T1" THEN Body(<<TrackStep("a", NoProp)>>, "async")
  ELSE IF prog = "dependant" /\ task = "T2"
  THEN Body(<<[op |-> "set", x |-> "a", p |-> NoProp]>>, "return")
  ELSE Body(<<TrackStep("a", NoProp)>>, "return")

\* ChoreType in the order of execution (specification, section 5).
KindOrder == <<"RESOURCE", "TASK", "NODE_DIFF", "NODE_PROP", "COMPONENT", "VISIBLE">>
Rank(type) == CHOOSE i \in DOMAIN KindOrder : KindOrder[i] = type

\* A chore: its type, its target and property (the key), its payload, and
\* who enqueued it ("hook", "trigger", "event": a write in an event handler,
\* "chore": a write made by a running chore).
Chore(type, host, key, payload, by) ==
  [type |-> type, host |-> host, key |-> key, payload |-> payload, by |-> by]
SameKey(c, d) == c.type = d.type /\ c.host = d.host /\ c.key = d.key
\* Task.$index$: the position of the task in the sequential scope of its host.
TaskIndex(task) == IF task = "T1" THEN "0" ELSE "1"
\* A plausible slip: the index is looked for on the argument of the call,
\* which for the calls of $triggerEffects$ is the subscription, not the task.
ChoreOfCall_IndexOfArgument(h, call, by) ==
  IF call.type \in {"TASK", "VISIBLE"}
  THEN Chore(call.type, HostOf(h.rec[call.sub].effect),
             IF call.origin = "" THEN TaskIndex(h.rec[call.sub].effect) ELSE NoProp,
             h.rec[call.sub].effect, by)
  ELSE Chore(call.type, call.host, call.prop, call.signal, by)
\* The chore of a call container.$scheduler$(type, ...).
ChoreOfCall(h, call, by) ==
  IF call.type \in {"TASK", "VISIBLE"}
  THEN Chore(call.type, HostOf(h.rec[call.sub].effect),
             TaskIndex(h.rec[call.sub].effect), h.rec[call.sub].effect, by)
  ELSE Chore(call.type, call.host, call.prop, call.signal, by)

\* A plausible slip: every call adds an entry.
Enqueue_NoCoalescing(q, c) == Append(q, c)
\* Enqueuing: a chore whose key is pending replaces the payload of the
\* pending entry, any other is added at the end.
Enqueue(q, c) ==
  IF \E i \in DOMAIN q : SameKey(q[i], c)
  THEN [q EXCEPT ![CHOOSE i \in DOMAIN q : SameKey(q[i], c)] =
          [@ EXCEPT !.payload = c.payload, !.by = c.by]]
  ELSE Append(q, c)

RECURSIVE EnqueueCalls(_, _, _, _)
\* The calls the operation made to the scheduler, from the i-th on.
EnqueueCalls(q, h, by, i) ==
  IF i > Len(h.calls) THEN q
  ELSE EnqueueCalls(Enqueue(q, ChoreOfCall(h, h.calls[i], by)), h, by, i + 1)

\* The next chore to execute: of the lowest kind, the earliest.
NextChore(q) ==
  CHOOSE i \in DOMAIN q :
    \A j \in DOMAIN q :
      \/ Rank(q[i].type) < Rank(q[j].type)
      \/ Rank(q[i].type) = Rank(q[j].type) /\ i <= j

\* A plausible slip: a flush is one pass; it ends when the running chore is done.
FlushMayEnd_SinglePass(q, c) == c.state = "idle"
\* A flush is finished when nothing is pending and nothing runs.
FlushMayEnd(q, c) == q = <<>> /\ c.state = "idle"

\* A plausible slip: the scheduler starts the next chore while one is awaited.
MayStart_Overlapping(c) == c.state # "removed"
\* A chore may start when none is running or awaited.
MayStart(c) == c.state = "idle"

\* The component of host H runs: it reads a under a context that has the
\* host and no subscriber.
renderComponent(h, host) ==
  [Signal2_get_value([Event(h, "render", host, NoProp, 0) EXCEPT
                        !.ctx = HostCtx(host, TaskContainer)], "a")
     EXCEPT !.ctx = h.ctx]

\* useVisibleTaskQrl is not among the sources: the task is created with the
\* VISIBLE_TASK flag and waits for its trigger; nothing is scheduled.
useVisibleTaskQrl(h, task) == [h EXCEPT !.flags[task] = VISIBLE_TASK + DIRTY]

\* A plausible slip: the trigger schedules every task as a TASK chore.
scheduleTask_AlwaysTask(h, task) ==
  [h EXCEPT !.calls = Append(@, SchedulerCall("TASK", getSubscriber(task), "", "", "", ""))]
\* scheduleTask(_event, element), use-task.ts:272-277
scheduleTask(h, task) ==
  [h EXCEPT !.calls =
     Append(@, SchedulerCall(IF HasFlag(h.flags[task], VISIBLE_TASK) THEN "VISIBLE" ELSE "TASK",
                             getSubscriber(task), "", "", "", ""))]

\* What the scheduler does for a chore.
executeChore(h, c, prog) ==
  IF c.type \in {"TASK", "VISIBLE"}
  THEN ChoreResult(runTask(h, c.payload, TaskBody(prog, c.payload)), c.payload)
  ELSE IF c.type = "COMPONENT" THEN [renderComponent(h, c.host) EXCEPT !.out = "done"]
  ELSE [Event(h, "dom", c.host, c.key, 0) EXCEPT !.out = "done"]

\* The heap before the first render: the objects as constructed.
FreshHeap ==
  [val |-> [s \in Signals |-> IF s \in Plain THEN 0 ELSE NEEDS_COMPUTATION],
   invalid |-> [c \in Computed \cup Derived |-> TRUE],
   eff |-> [s \in Signals |-> <<>>], rec |-> CallerSubs,
   cont |-> [s \in Signals |-> Null], flags |-> [t \in Tasks |-> 0], ctx |-> NoCtx,
   calls |-> <<>>, runs |-> NoRuns, walks |-> NoWalks, fails |-> {},
   depth |-> 0, overflow |-> FALSE,
   ret |-> NEEDS_COMPUTATION, did |-> FALSE, err |-> FALSE,
   destroy |-> [t \in Tasks |-> 0], fns |-> [r \in 1..MaxRuns |-> <<>>],
   fired |-> [r \in 1..MaxRuns |-> 0], nrun |-> 0, rethrows |-> FALSE,
   ev |-> <<>>, exc |-> "", result |-> "", out |-> "", removed |-> FALSE]

\* The first render of the component: its hooks, its body, and the reads of
\* its bindings (of "coalesce": the attribute, record 4, reads a and double,
\* the text node, record 3, reads double).
firstRender(prog) ==
  IF prog = "coalesce"
  THEN [Signal2_get_value(
          [Signal2_get_value(
             Signal2_get_value([FreshHeap EXCEPT !.ctx = SubCtx(4, TaskContainer)], "a"),
             "double") EXCEPT !.ctx = SubCtx(3, TaskContainer)],
          "double") EXCEPT !.ctx = NoCtx]
  ELSE IF prog = "visible" THEN renderComponent(useVisibleTaskQrl(FreshHeap, "T1"), "H")
  ELSE useTaskQrl(useTaskQrl(FreshHeap, "T1"), "T2")

(***************************************************************************)
(* The state machine of the scheduler.                                     *)
(***************************************************************************)
\* A flush begins with the first chore enqueued while none is active.
StartFlush(f, q) ==
  IF q # <<>> /\ ~f.active THEN [NoFlush EXCEPT !.active = TRUE, !.by = q[1].by] ELSE f

\* The flush after chore c was executed with result h.
Executed(f, c, h) ==
  [f EXCEPT !.cascaded = @ \/ c.by = "chore",
            !.awaited = @ \/ h.out = "awaitBody",
            !.running = c.payload,
            !.ran = IF c.type \in {"TASK", "VISIBLE"}
                    THEN [@ EXCEPT ![c.payload] = @ + 1] ELSE @]

\* The operation ends: its effects on the objects become the new state.
SchedulerCommit(h, via, q, f) ==
  /\ Len(h.rec) <= NCaller + MaxSubs
  /\ program' = program
  /\ untrackedValue' = h.val
  /\ invalid' = h.invalid
  /\ effects' = h.eff
  /\ subs' = h.rec
  /\ container' = h.cont
  /\ flags' = h.flags
  /\ calls' = h.calls
  /\ runs' = h.runs
  /\ walks' = h.walks
  /\ lastOp' = lastOp
  /\ destroy' = h.destroy
  /\ cleanupFns' = h.fns
  /\ fired' = h.fired
  /\ nrun' = h.nrun
  /\ events' = h.ev
  /\ chore' = [state |-> Awaits(h), via |-> via]
  /\ pending' = pending
  /\ rethrows' = rethrows
  /\ queue' = q
  /\ flush' = f
  /\ UNCHANGED localeVars

\* The component has rendered for the first time.
SchedulerInit ==
  /\ program \in SchedulerPrograms
  /\ untrackedValue = firstRender(program).val
  /\ invalid = firstRender(program).invalid
  /\ effects = firstRender(program).eff
  /\ subs = firstRender(program).rec
  /\ container = firstRender(program).cont
  /\ flags = firstRender(program).flags
  /\ calls = firstRender(program).calls
  /\ runs = NoRuns
  /\ walks = NoWalks
  /\ lastOp = [op |-> "new", sig |-> "", ctx |-> "none", cont |-> Null, arg |-> 0,
               ret |-> NEEDS_COMPUTATION, err |-> FALSE, restored |-> TRUE,
               overflow |-> FALSE]
  /\ NoTaskActivity
  /\ rethrows = FALSE
  /\ queue = EnqueueCalls(<<>>, firstRender(program), "hook", 1)
  /\ flush = StartFlush(NoFlush, EnqueueCalls(<<>>, firstRender(program), "hook", 1))
  /\ triggered = [t \in Tasks |-> FALSE]
  /\ NoLocaleActivity

\* The scheduler executes the next chore.
ExecuteNext ==
  /\ flush.active
  /\ queue # <<>>
  /\ MayStart(chore)
  /\ queue[NextChore(queue)].type \in {"TASK", "VISIBLE"} => nrun < MaxRuns
  /\ LET c == queue[NextChore(queue)]
         h == executeChore(Event(TaskHeap, "chore", c.type, c.payload, Len(queue)),
                           c, program)
     IN /\ SchedulerCommit(h, c.by,
                           EnqueueCalls(Splice(queue, NextChore(queue)), h, "chore", 1),
                           Executed(flush, c, h))
        /\ triggered' = triggered

\* The promise of the asynchronous body the scheduler awaits settles.
ChoreSettles ==
  /\ chore.state = "awaitBody"
  /\ \E s \in {[how |-> "fulfil", x |-> Undefined], [how |-> "reject", x |-> BodyError]} :
       SchedulerCommit(ChoreResult(BodySettled(TaskHeap, flush.running, s), flush.running),
                       chore.via, queue, flush)
  /\ triggered' = triggered

\* The flush after an event handler wrote a signal, with result h.
Written(f, h) ==
  [f EXCEPT !.writes = IF h.val = untrackedValue \/ ~f.active THEN @
                       ELSE IF @ = "none" THEN "one" ELSE "many"]

\* a.value = v in an event handler: between two flushes, or while the
\* scheduler awaits the body of a task.
WriteSignal ==
  /\ ~flush.active \/ chore.state = "awaitBody"
  /\ \E v \in Values :
       LET h == Signal2_set_value(TaskHeap, "a", v)
       IN SchedulerCommit(h, chore.via, EnqueueCalls(queue, h, "event", 1),
                          Written(StartFlush(flush, EnqueueCalls(queue, h, "event", 1)), h))
  /\ triggered' = triggered

\* The readiness trigger of a visible task fires: its event handler,
\* scheduleTask, runs.
TriggerFires ==
  \E task \in VisibleTasks(program) :
    /\ ~triggered[task]
    /\ LET h == scheduleTask(TaskHeap, task)
       IN SchedulerCommit(h, chore.via, EnqueueCalls(queue, h, "trigger", 1),
                          StartFlush(flush, EnqueueCalls(queue, h, "trigger", 1)))
    /\ triggered' = [triggered EXCEPT ![task] = TRUE]

\* vnode_getProp(value, QSubscribers, ...): the signals the subscriptions of
\* host value depend on, each once.
QSubscribers(value) ==
  LET s == {d \in Signals : \E r \in DOMAIN subs :
              subs[r].effect = value /\ \E k \in DOMAIN subs[r].deps : subs[r].deps[k] = d}
  IN CHOOSE q \in [1..Cardinality(s) -> s] : {q[k] : k \in 1..Cardinality(s)} = s

\* The renderer removes the subscriptions of a host or of a task between two
\* flushes: the sweep of the vnode, or of the subscriber.
Sweep ==
  /\ ~flush.active
  /\ \E value \in Hosts \cup Tasks :
       /\ \E r \in DOMAIN subs : subs[r].effect = value /\ subs[r].deps # <<>>
       /\ SchedulerCommit(
            IF value \in Tasks
            THEN clearSubscriberEffectDependencies(
                   Event(TaskHeap, "sweep", value, NoProp, 0), value,
                   Len(subs[getSubscriber(value)].deps))
            ELSE clearVNodeEffectDependencies(
                   Event(TaskHeap, "sweep", value, NoProp, 0), value,
                   QSubscribers(value), Len(QSubscribers(value))),
            chore.via, queue, flush)
  /\ triggered' = triggered

\* The scheduler reports the flush finished.
FlushEnds ==
  /\ flush.active
  /\ FlushMayEnd(queue, chore)
  /\ flush' = [flush EXCEPT !.active = FALSE]
  /\ UNCHANGED <<program, untrackedValue, invalid, effects, subs, container, flags,
                 calls, runs, walks, lastOp, queue, triggered>>
  /\ UNCHANGED taskVars
  /\ UNCHANGED localeVars

SchedulerNext ==
  \/ ExecuteNext
  \/ ChoreSettles
  \/ WriteSignal
  \/ TriggerFires
  \/ Sweep
  \/ FlushEnds

SchedulerSpec == SchedulerInit /\ [][SchedulerNext]_vars

(***************************************************************************)
(* The locale, use-locale.ts. Requests are asynchronous flows of control   *)
(* on one thread: a request runs until its code awaits or ends, then any   *)
(* request may go on. AsyncLocalStorage gives every flow its own store:    *)
(* the stores a request entered with run() and has not left are the        *)
(* frames of that request whose path is "store".                           *)
(***************************************************************************)
\* Nesting of withLocale calls, statements per request, exceptions thrown
\* by the functions of a request.
MaxDepth == 2
MaxSteps == 3
MaxThrows == 1

\* The locales a request passes to withLocale and setLocale, ctx.$locale$
\* of an invocation context, a defaultLocale argument.
LocalesOf(r) == IF r = "r1" THEN {"en", "en-GB"} ELSE {"fr", "fr-CA"}
CtxLocale == "ctx"
DefaultLocale == "default"
\* The error of line 47 (its message, without the quotes around locale).
OutsideOfContext == "Reading locale outside of context."

\* A call withLocale(locale, fn) whose fn has not finished: the path taken
\* (localAsyncStore.run or the global variable), the locale of the store of
\* the run, previousLang, whether withLocale itself has returned (fn awaits),
\* whether fn is executed for the second time; for the properties, what
\* getLocale is to return in fn and what the locale state was at the call.
Frame(locale, path, previousLang, before) ==
  [locale |-> locale, path |-> path, store |-> IF path = "store" THEN locale ELSE Undefined,
   previousLang |-> previousLang, returned |-> FALSE, again |-> FALSE,
   expect |-> locale, before |-> before]

\* localAsyncStore.getStore(): the innermost store the flow has entered (0: none)
getStore(fr) ==
  IF \E i \in DOMAIN fr : fr[i].path = "store"
  THEN CHOOSE i \in DOMAIN fr :
         fr[i].path = "store" /\ \A j \in DOMAIN fr : fr[j].path = "store" => j <= i
  ELSE 0

\* A plausible slip: the invocation context is asked before the variable.
getLocale_ContextFirst(fr, global, ctx, defaultLocale) ==
  IF localAsyncStore /\ getStore(fr) # 0 /\ fr[getStore(fr)].store # Undefined
  THEN fr[getStore(fr)].store
  ELSE IF ctx # Undefined THEN ctx
  ELSE IF global # Undefined THEN global
  ELSE IF defaultLocale # Undefined THEN defaultLocale
  ELSE OutsideOfContext
\* getLocale(defaultLocale), use-locale.ts:30-50, called in a flow with
\* frames fr, with _locale = global and ctx.$locale$ = ctx
getLocale(fr, global, ctx, defaultLocale) ==
  IF localAsyncStore /\ getStore(fr) # 0 /\ fr[getStore(fr)].store # Undefined
  THEN fr[getStore(fr)].store
  ELSE IF global # Undefined THEN global
  ELSE IF ctx # Undefined THEN ctx
  ELSE IF defaultLocale # Undefined THEN defaultLocale
  ELSE OutsideOfContext

\* A plausible slip: setLocale always assigns the variable.
setLocale_AlwaysGlobal(fr, global, locale) ==
  [frames |-> [fr EXCEPT ![Len(fr)].expect = locale], global |-> locale]
\* setLocale(locale), use-locale.ts:84-96: the store of the flow if there is
\* one; store!.locale of no store throws, is caught, and the variable is set.
setLocale(fr, global, locale) ==
  IF localAsyncStore /\ getStore(fr) # 0
  THEN [frames |-> [fr EXCEPT ![getStore(fr)].store = locale, ![Len(fr)].expect = locale],
        global |-> global]
  ELSE [frames |-> IF fr = <<>> THEN fr ELSE [fr EXCEPT ![Len(fr)].expect = locale],
        global |-> locale]

\* The frames of a flow when it awaits: every withLocale on the stack returns
\* the promise of its fn.
PromiseReturned(fr) == [i \in DOMAIN fr |-> [fr[i] EXCEPT !.returned = TRUE]]
\* _locale after the finally clauses (lines 71-73) of the calls that return;
\* the last to run is that of the outermost.
Restored(fr, global) ==
  IF \E i \in DOMAIN fr : fr[i].path = "global" /\ ~fr[i].returned
  THEN fr[CHOOSE i \in DOMAIN fr :
            /\ fr[i].path = "global" /\ ~fr[i].returned
            /\ \A j \in DOMAIN fr : fr[j].path = "global" /\ ~fr[j].returned => i <= j].previousLang
  ELSE global

NoGet == [r |-> "none", ctx |-> Undefined, defaultLocale |-> Undefined, result |-> Undefined]

\* The end of a step of request r.
LocaleCommit(r, fr, global, got, counted) ==
  /\ requests' = [requests EXCEPT ![r].frames = fr,
                                  ![r].steps = IF counted THEN @ + 1 ELSE @]
  /\ _locale' = global
  /\ lastGet' = got
  /\ localAsyncStore' = localAsyncStore
  /\ UNCHANGED signalVars
  /\ UNCHANGED taskVars
  /\ UNCHANGED schedulerVars

\* The innermost call of withLocale request r is in.
Top(r) == requests[r].frames[Len(requests[r].frames)]

\* Request r has the thread, or nobody has.
MayStep(r) ==
  /\ running \in {r, "none"}
  /\ ~requests[r].throwing
  /\ requests[r].steps < MaxSteps

LocaleInit ==
  /\ program = "locale"
  /\ untrackedValue = [s \in Signals |-> IF s \in Plain THEN 0 ELSE NEEDS_COMPUTATION]
  /\ invalid = [c \in Computed \cup Derived |-> TRUE]
  /\ effects = [s \in Signals |-> <<>>]
  /\ subs = CallerSubs
  /\ container = [s \in Signals |-> Null]
  /\ flags = [t \in Tasks |-> 0]
  /\ calls = <<>>
  /\ runs = NoRuns
  /\ walks = NoWalks
  /\ lastOp = [op |-> "new", sig |-> "", ctx |-> "none", cont |-> Null, arg |-> 0,
               ret |-> NEEDS_COMPUTATION, err |-> FALSE, restored |-> TRUE,
               overflow |-> FALSE]
  /\ NoTaskActivity
  /\ rethrows = FALSE
  /\ NoSchedulerActivity
  /\ _locale = Undefined
  /\ localAsyncStore \in BOOLEAN
  /\ requests = [r \in Requests |-> [frames |-> <<>>, steps |-> 0, throws |-> 0,
                                     throwing |-> FALSE]]
  /\ running = "none"
  /\ lastGet = NoGet

\* withLocale(locale, fn), lines 57-70, up to the call of fn
EnterWithLocale ==
  \E r \in Requests : \E locale \in LocalesOf(r) :
    /\ MayStep(r)
    /\ Len(requests[r].frames) < MaxDepth
    /\ running' = r
    /\ IF localAsyncStore
       THEN LocaleCommit(r, Append(requests[r].frames,
                                   Frame(locale, "store", Undefined,
                                         <<requests[r].frames, _locale>>)),
                         _locale, NoGet, TRUE)
       ELSE LocaleCommit(r, Append(requests[r].frames,
                                   Frame(locale, "global", _locale,
                                         <<requests[r].frames, _locale>>)),
                         locale, NoGet, TRUE)

\* getLocale(defaultLocale), under an invocation context or none
GetLocale ==
  \E r \in Requests : \E ctx \in {Undefined, CtxLocale} :
    \E defaultLocale \in {Undefined, DefaultLocale} :
      /\ MayStep(r)
      /\ running' = IF requests[r].frames = <<>> THEN "none" ELSE r
      /\ LocaleCommit(r, requests[r].frames, _locale,
                      [r |-> r, ctx |-> ctx, defaultLocale |-> defaultLocale,
                       result |-> getLocale(requests[r].frames, _locale, ctx, defaultLocale)],
                      TRUE)

\* setLocale(locale)
SetLocale ==
  \E r \in Requests : \E locale \in LocalesOf(r) :
    /\ MayStep(r)
    /\ running' = IF requests[r].frames = <<>> THEN "none" ELSE r
    /\ LocaleCommit(r, setLocale(requests[r].frames, _locale, locale).frames,
                    setLocale(requests[r].frames, _locale, locale).global, NoGet, TRUE)

\* fn awaits: it returns a promise, and so do the calls of withLocale above
\* it; the thread is free.
FnAwaits ==
  \E r \in Requests :
    /\ MayStep(r)
    /\ running = r
    /\ requests[r].frames # <<>>
    /\ running' = "none"
    /\ LocaleCommit(r, PromiseReturned(requests[r].frames),
                    Restored(requests[r].frames, _locale), NoGet, TRUE)

\* fn ends: localAsyncStore.run returns (line 61), or fn returns and the
\* finally clause runs (lines 70-73), or the promise of fn settles.
FnReturns ==
  \E r \in Requests :
    /\ running \in {r, "none"}
    /\ ~requests[r].throwing
    /\ requests[r].frames # <<>>
    /\ running' = IF Len(requests[r].frames) = 1 THEN "none" ELSE r
    /\ LocaleCommit(r, SubSeq(requests[r].frames, 1, Len(requests[r].frames) - 1),
                    Restored(<<Top(r)>>, _locale),
                    NoGet, FALSE)

\* fn throws before it awaits, or the exception of an inner call reaches fn.
\* Thrown out of localAsyncStore.run it is caught (line 63) and fn is called
\* again with the variable set (lines 67-70); thrown by that call it passes
\* the finally clause and leaves withLocale.
FnThrows ==
  \E r \in Requests :
    /\ running = r
    /\ requests[r].frames # <<>>
    /\ ~Top(r).returned
    /\ requests[r].throwing \/ requests[r].throws < MaxThrows
    /\ IF Top(r).path = "store"
       THEN /\ requests' = [requests EXCEPT
                 ![r].frames[Len(requests[r].frames)] =
                     [@ EXCEPT !.path = "global", !.store = Undefined,
                               !.previousLang = _locale, !.again = TRUE,
                               !.expect = Top(r).locale],
                 ![r].throwing = FALSE,
                 ![r].throws = IF requests[r].throwing THEN @ ELSE @ + 1]
            /\ _locale' = Top(r).locale
            /\ running' = r
       ELSE /\ requests' = [requests EXCEPT
                 ![r].frames = SubSeq(@, 1, Len(@) - 1),
                 ![r].throwing = Len(requests[r].frames) > 1,
                 ![r].throws = IF requests[r].throwing THEN @ ELSE @ + 1]
            /\ _locale' = Top(r).previousLang
            /\ running' = IF Len(requests[r].frames) = 1 THEN "none" ELSE r
    /\ lastGet' = NoGet
    /\ localAsyncStore' = localAsyncStore
    /\ UNCHANGED signalVars
    /\ UNCHANGED taskVars
    /\ UNCHANGED schedulerVars

LocaleNext ==
  \/ EnterWithLocale
  \/ GetLocale
  \/ SetLocale
  \/ FnAwaits
  \/ FnReturns
  \/ FnThrows

LocaleSpec == LocaleInit /\ [][LocaleNext]_vars

(***************************************************************************)
(* Vocabulary of the properties.                                           *)
(***************************************************************************)
Range(seq) == {seq[i] : i \in DOMAIN seq}

\* The effect and the property a scheduler call was made for.
CallEffect(c) == IF c.type = "TASK" THEN subs[c.sub].effect ELSE c.host
CallProp(c) == IF c.type = "TASK" THEN subs[c.sub].prop ELSE c.prop

\* The scheduler calls of the last operation made for (effect, property)
\* while the effect list of signal `origin` was walked.
CallsFor(effect, property, origin) ==
  {i \in DOMAIN calls :
     /\ calls[i].origin = origin
     /\ CallEffect(calls[i]) = effect
     /\ CallProp(calls[i]) = property}

\* The last operation was `s.value = v` and it changed the stored value
\* (every such operation on a signal with subscribers dispatches something).
ChangedBySet(s) ==
  /\ lastOp.op = "set"
  /\ lastOp.sig = s
  /\ (calls # <<>> \/ \E x \in Signals : walks[x] > 0)

\* C1: a set that changes signal S makes exactly one scheduler call for each
\* task or host/property subscribed to S, and walks the dependents of each
\* computed or derived signal subscribed to S exactly once.
C1_EachEffectNotifiedOnce ==
  \A s \in Plain :
    ChangedBySet(s) =>
      \A r \in Range(effects[s]) :
        IF subs[r].effect \in Signals
        THEN walks[subs[r].effect] = 1
        ELSE Cardinality(CallsFor(subs[r].effect, subs[r].prop, s)) = 1

\* C2: `S.value = v` with v equal to the stored value changes nothing: the
\* value, the effect lists, the invalid flags, the subscription records and
\* the tasks' flags stay as they are and the scheduler is not called.
C2_SetSameValueIsNoOp ==
  [][(lastOp'.op = "set" /\ lastOp'.arg = untrackedValue[lastOp'.sig]) =>
       /\ untrackedValue' = untrackedValue
       /\ effects' = effects
       /\ invalid' = invalid
       /\ subs' = subs
       /\ flags' = flags
       /\ calls' = <<>>]_vars

\* A set that changed nothing happened on a signal that has subscribers.
C2_Witness ==
  /\ lastOp.op = "set"
  /\ Len(effects[lastOp.sig]) >= 2
  /\ calls = <<>>

\* C3: a signal's effect list holds at most one subscription per effect and
\* property, and no subscription lists a signal twice.
C3_SubscribingIsIdempotent ==
  /\ \A s \in Signals : \A i, j \in DOMAIN effects[s] :
       (subs[effects[s][i]].effect = subs[effects[s][j]].effect
        /\ subs[effects[s][i]].prop = subs[effects[s][j]].prop) => i = j
  /\ \A r \in DOMAIN subs : \A i, j \in DOMAIN subs[r].deps :
       subs[r].deps[i] = subs[r].deps[j] => i = j

\* C5: the subscription graph is symmetric: record r is in the effect list
\* of signal s exactly when s is among r's dependency entries.
C5_GraphIsSymmetric ==
  \A s \in Signals : \A r \in DOMAIN subs :
    (r \in Range(effects[s])) <=> (s \in Range(subs[r].deps))

\* A record subscribed to a signal next to another record, while a record
\* allocated by the signal code itself is subscribed too.
C5_Witness ==
  \E s \in Signals : \E r \in Range(effects[s]) :
    /\ r > NCaller
    /\ Len(effects[s]) >= 2
    /\ s \in Range(subs[r].deps)

\* The operation reads without tracking: `.value` with no context or with a
\* context that has neither subscriber nor host, or `.untrackedValue`.
UntrackedRead(op) ==
  \/ op.op = "value" /\ op.ctx \in {"none", "bare"}
  \/ op.op = "untrackedValue"

\* C4 as stated: for every signal, a read without tracking returns the stored
\* value and leaves every effect list and every subscription record as it is.
C4_UntrackedReadLeavesGraph ==
  [][UntrackedRead(lastOp') =>
       /\ effects' = effects
       /\ subs' = subs
       /\ lastOp'.ret = untrackedValue'[lastOp'.sig]]_vars

\* C4 amended: the same for a plain signal, and for a computed signal that is
\* not recomputed by the read or is read with no context at all.
C4_UntrackedReadLeavesGraph_Amended ==
  [][(/\ UntrackedRead(lastOp')
      /\ \/ lastOp'.sig \in Plain
         \/ lastOp'.sig \in Computed /\ (~invalid[lastOp'.sig] \/ lastOp'.ctx = "none"))
     =>
       /\ effects' = effects
       /\ subs' = subs
       /\ lastOp'.ret = untrackedValue'[lastOp'.sig]]_vars

\* `a.untrackedValue` was read under a task's subscriber context and the
\* task's record is subscribed to nothing.
C4_Witness ==
  /\ lastOp.op = "untrackedValue"
  /\ lastOp.ctx = "sub"
  /\ lastOp.sig \in Plain
  /\ lastOp.ret = untrackedValue[lastOp.sig]
  /\ effects[lastOp.sig] = <<>>
  /\ \A r \in 1..NCaller : subs[r].deps = <<>>

\* The compute function of c evaluated on the values val of the plain signals.
RECURSIVE FreshOf(_, _)
FreshOf(val, c) ==
  FnResult(c, IF FnInput(c) \in Plain THEN val[FnInput(c)] ELSE FreshOf(val, FnInput(c)))
FreshValue(c) == FreshOf(untrackedValue, c)

\* C6: no stale computed value: a computed signal that is not marked invalid
\* holds its function's value on the current signal values, a read of a
\* computed signal returns that value, and a changing set notifies each
\* consumer subscribed to a computed signal once.
C6_NoStaleComputedValue ==
  /\ \A c \in Computed : ~invalid[c] => untrackedValue[c] = FreshValue(c)
  /\ \A c \in Computed :
       (lastOp.op \in {"value", "untrackedValue"} /\ lastOp.sig = c /\ ~lastOp.err)
         => lastOp.ret = FreshValue(c)
  /\ \A s \in Plain : ChangedBySet(s) =>
       \A c \in Computed : \A r \in Range(effects[c]) :
         (subs[r].effect \notin Signals /\ walks[c] > 0)
           => Cardinality(CallsFor(subs[r].effect, subs[r].prop, c)) = 1

\* C7: when a set changes a signal, the effects of a computed signal C that
\* held a computed value are scheduled only if C's recomputed value differs
\* from that previous value.
C7_EffectsScheduledOnlyOnChange ==
  [][lastOp'.op = "set" =>
       \A c \in Computed :
         (~invalid[c] /\ \E i \in DOMAIN calls' : calls'[i].origin = c)
           => FreshOf(untrackedValue', c) # untrackedValue[c]]_vars

\* Record r of the walked signal `origin` was dispatched in the operation
\* that left the scheduler calls cs and the walk counts ws (arena ss).
Dispatched(cs, ws, ss, inv, r, origin) ==
  IF ss[r].effect \in Signals
  THEN ws[ss[r].effect] >= 1 /\ inv[ss[r].effect]
  ELSE \E i \in DOMAIN cs :
         /\ cs[i].origin = origin
         /\ (IF cs[i].type = "TASK" THEN cs[i].sub = r
             ELSE cs[i].host = ss[r].effect /\ cs[i].prop = ss[r].prop)

\* C8: $invalidate$() on a computed signal with no dependents only marks it
\* invalid (no computation, nothing dispatched); with dependents it runs the
\* compute function exactly once and dispatches the dependents exactly when
\* the new value differs from the previous one. (A call that ends in a usage
\* error, a compute function reading a signal of another container, is not
\* the claim's case.)
C8_InvalidateComputed ==
  [][(lastOp'.op = "invalidate" /\ lastOp'.sig \in Computed /\ ~lastOp'.err) =>
       LET c == lastOp'.sig IN
       IF effects[c] = <<>>
       THEN /\ invalid'[c]
            /\ runs' = NoRuns
            /\ calls' = <<>>
            /\ walks' = NoWalks
            /\ untrackedValue' = untrackedValue
       ELSE /\ runs'[c] = 1
            /\ ~invalid'[c]
            /\ untrackedValue'[c] # untrackedValue[c] =>
                 \A r \in Range(effects[c]) : Dispatched(calls', walks', subs', invalid', r, c)
            /\ untrackedValue'[c] = untrackedValue[c] =>
                 (calls' = <<>> /\ walks' = NoWalks)]_vars

\* $invalidate$() recomputed a computed signal that has dependents to the
\* value it had, and nothing was scheduled.
C8_Witness ==
  /\ lastOp.op = "invalidate"
  /\ lastOp.sig \in Computed
  /\ effects[lastOp.sig] # <<>>
  /\ runs[lastOp.sig] = 1
  /\ calls = <<>>
  /\ \E r \in Range(effects[lastOp.sig]) : subs[r].effect \in Tasks

\* C9: force() on a computed or derived signal marks it invalid and
\* dispatches each of its subscriptions, without running any compute function
\* and without touching a stored value.
C9_ForceAlwaysPropagates ==
  [][lastOp'.op = "force" =>
       LET c == lastOp'.sig IN
       /\ invalid'[c]
       /\ runs' = NoRuns
       /\ untrackedValue' = untrackedValue
       /\ effects' = effects
       /\ \A r \in Range(effects[c]) : Dispatched(calls', walks', subs', invalid', r, c)
       /\ Len(calls') >= Cardinality({r \in Range(effects[c]) : subs[r].effect \notin Signals})]_vars

\* force() was called on a signal whose stored value is what a recomputation
\* would give, and its dependent task was scheduled all the same.
C9_Witness ==
  /\ lastOp.op = "force"
  /\ ~lastOp.err
  /\ untrackedValue[lastOp.sig] = FreshValue(lastOp.sig)
  /\ \E i \in DOMAIN calls : calls[i].type = "TASK" /\ calls[i].origin = lastOp.sig

\* The last operation read computed signal c (`.value` or `.untrackedValue`).
ReadOf(op, c) == op.op \in {"value", "untrackedValue"} /\ op.sig = c

\* The `.value` read fails the assertions on the containers (v2-signal.ts:144-153)
\* before anything else happens.
RejectedRead(op, c) ==
  /\ op.op = "value"
  /\ op.ctx # "none"
  /\ \/ container[c] = Null /\ op.cont = Null
     \/ container[c] # Null /\ op.cont # Null /\ op.cont # container[c]

\* C10: a computed signal starts invalid; a read runs the compute function
\* exactly when the signal is invalid, a run that succeeds clears the flag,
\* a read of a valid signal returns the stored value unchanged, and
\* NEEDS_COMPUTATION is never returned. (A `.value` read that the container
\* assertions of the getter reject is a usage error, not the claim's case.)
C10_ComputedIsLazy ==
  /\ \A c \in Computed : invalid[c]
  /\ [][\A c \in Computed : (ReadOf(lastOp', c) /\ ~RejectedRead(lastOp', c)) =>
          /\ runs'[c] = (IF invalid[c] THEN 1 ELSE 0)
          /\ ~lastOp'.err =>
               /\ ~invalid'[c]
               /\ lastOp'.ret # NEEDS_COMPUTATION
               /\ lastOp'.ret = untrackedValue'[c]
          /\ ~invalid[c] =>
               /\ untrackedValue'[c] = untrackedValue[c]
               /\ lastOp'.ret = untrackedValue[c]]_vars

\* A computed signal that had been computed was read again: the function did
\* not run and the stored value came back.
C10_Witness ==
  /\ lastOp.op = "value"
  /\ lastOp.sig \in Computed
  /\ runs[lastOp.sig] = 0
  /\ ~invalid[lastOp.sig]
  /\ lastOp.ret = untrackedValue[lastOp.sig]
  /\ lastOp.ret # NEEDS_COMPUTATION

\* C11: assigning `value` on a computed or derived signal always throws and
\* changes nothing: stored values, invalid flags, effect lists, subscription
\* records and task flags are as before and the scheduler is not called.
C11_ReadOnlySetThrows ==
  [][lastOp'.op = "setReadOnly" =>
       /\ lastOp'.err
       /\ untrackedValue' = untrackedValue
       /\ invalid' = invalid
       /\ effects' = effects
       /\ subs' = subs
       /\ container' = container
       /\ flags' = flags
       /\ calls' = <<>>
       /\ walks' = NoWalks]_vars

\* A value other than the stored one was assigned to a valid computed signal
\* that has a task among its dependents, and the assignment threw.
C11_Witness ==
  /\ lastOp.op = "setReadOnly"
  /\ lastOp.err
  /\ lastOp.sig \in Computed
  /\ ~invalid[lastOp.sig]
  /\ lastOp.arg # untrackedValue[lastOp.sig]
  /\ \E r \in Range(effects[lastOp.sig]) : subs[r].effect \in Tasks

\* C12: with a container bound, a derived signal behaves like a computed
\* signal: a read runs the function exactly when the signal is invalid and a
\* successful computation clears $invalid$; $invalidate$() with dependents
\* runs the function once and dispatches the dependents exactly when the
\* stored value changed.
C12_DerivedBehavesLikeComputed ==
  [][\A d \in Derived :
       /\ (ReadOf(lastOp', d) /\ container'[d] # Null /\ ~lastOp'.err) =>
            /\ runs'[d] = (IF invalid[d] THEN 1 ELSE 0)
            /\ ~invalid'[d]
       /\ (/\ lastOp'.op = "invalidate" /\ lastOp'.sig = d
           /\ container[d] # Null /\ effects[d] # <<>> /\ ~lastOp'.err) =>
            /\ runs'[d] = 1
            /\ ~invalid'[d]
            /\ untrackedValue'[d] # untrackedValue[d] =>
                 \A r \in Range(effects[d]) : Dispatched(calls', walks', subs', invalid', r, d)
            /\ untrackedValue'[d] = untrackedValue[d] =>
                 (calls' = <<>> /\ walks' = NoWalks)]_vars

\* C13: reading `untrackedValue` of a derived signal that is invalid and has
\* no container returns fn(...args), computed directly, and changes no state:
\* no effect list and no subscription record changes, and the derived
\* signal's stored value, invalid flag and container are as before.
C13_DerivedDirectComputation ==
  [][\A d \in Derived :
       (/\ lastOp'.op = "untrackedValue" /\ lastOp'.sig = d
        /\ invalid[d] /\ container[d] = Null) =>
         /\ ~lastOp'.err
         /\ lastOp'.ret = FreshOf(untrackedValue, d)
         /\ runs'[d] = 1
         /\ effects' = effects
         /\ subs' = subs
         /\ untrackedValue'[d] = untrackedValue[d]
         /\ invalid'[d] = invalid[d]
         /\ container'[d] = container[d]]_vars

\* C14: a signal's container is set at most once: a bound container never
\* changes, a container is bound only from the context of the operation that
\* reads the signal, and a tracked read under a context of another container
\* throws without rebinding the signal or touching a subscription.
C14_ContainerSetOnce ==
  [][/\ \A s \in Signals :
          /\ container[s] # Null => container'[s] = container[s]
          /\ (container[s] = Null /\ container'[s] # Null) => container'[s] = lastOp'.cont
     /\ (/\ lastOp'.op = "value"
         /\ lastOp'.cont # Null
         /\ container[lastOp'.sig] \notin {Null, lastOp'.cont}) =>
          /\ lastOp'.err
          /\ effects' = effects
          /\ subs' = subs
          /\ container' = container]_vars

\* A signal bound to container c1, with a subscriber, was read under a
\* subscriber context of container c2 and the read threw.
C14_Witness ==
  /\ lastOp.op = "value"
  /\ lastOp.ctx = "sub"
  /\ lastOp.cont = "c2"
  /\ lastOp.err
  /\ container[lastOp.sig] = "c1"
  /\ effects[lastOp.sig] # <<>>

(***************************************************************************)
(* Vocabulary of the task properties.                                      *)
(***************************************************************************)
\* The positions of the events of kind e in the event list ev.
EventsOf(ev, e) == {i \in DOMAIN ev : ev[i].e = e}
\* The cleanup functions the thunk of run r called, in order.
IsCleanupOf(r, x) == x.e = "cleanup" /\ x.v = r
CleanupCalls(ev, r) ==
  [i \in DOMAIN SelectSeq(ev, LAMBDA x : IsCleanupOf(r, x)) |->
     SelectSeq(ev, LAMBDA x : IsCleanupOf(r, x))[i].x]
\* The events before position b, and from b on.
Before(ev, b) == SubSeq(ev, 1, b - 1)
From(ev, b) == SubSeq(ev, b, Len(ev))
\* The last operation called runTask.
RanTask(ev) == EventsOf(ev, "runTask") # {}

\* C15: when runTask runs a task whose previous run left a destroy thunk,
\* every function of that run (registered through cleanup() or returned by
\* the body) is called exactly once, in the same operation and before the
\* body starts; the body starts whatever the cleanup functions throw.
C15_CleanupBeforeRerun ==
  [][(RanTask(events') /\ destroy["T1"] # 0) =>
       \E b \in EventsOf(events', "body") :
         /\ CleanupCalls(Before(events', b), destroy["T1"]) = cleanupFns[destroy["T1"]]
         /\ CleanupCalls(From(events', b), destroy["T1"]) = <<>>]_vars

\* The throwing cleanup function called at position i of ev is followed by
\* the container's error handler, called with its error and the task's host.
RoutedToHandler(ev, i) ==
  /\ i + 1 \in DOMAIN ev
  /\ ev[i + 1].e = "handleError"
  /\ ev[i + 1].x = ErrorOf(ev[i].x)
  /\ ev[i + 1].p = HostOf("T1")

\* C16: when the destroy thunk of a run fires, it fires for the first time,
\* it calls each cleanup function registered in that run exactly once and in
\* registration order, and the error of each throwing one goes to the
\* container's error handler.
C16_DestroyThunkRunsAll ==
  [][\A r \in 1..MaxRuns :
       fired'[r] # fired[r] =>
         /\ fired[r] = 0
         /\ fired'[r] = 1
         /\ CleanupCalls(events', r) = cleanupFns[r]
         /\ \A i \in EventsOf(events', "cleanup") :
              Throws(events'[i].x) => RoutedToHandler(events', i)]_vars

\* What the call of track at position i of ev handed back: the "track" event
\* that follows it, if the call returned.
Returned(ev, i) == i + 1 \in DOMAIN ev /\ ev[i + 1].e = "track"
ReturnedAfterRead(ev, i) == i + 2 \in DOMAIN ev /\ ev[i + 2].e = "track"
\* The task is subscribed to signal s, in both directions.
SubscribedTo(task, s) ==
  /\ getSubscriber(task) \in Range(effects[s])
  /\ s \in Range(subs[getSubscriber(task)].deps)

\* C17: track(obj) with an object that is neither a function nor a signal and
\* without a property name throws 'track object without prop' and subscribes
\* the task to nothing; track(fn) returns fn(), track(signal) the signal's
\* value and track(obj, prop) the value of obj[prop], whatever the property
\* name, each read with the task as the subscriber.
C17_TrackContract ==
  \A i \in EventsOf(events, "trackCall") :
    IF events[i].x = Store /\ events[i].p = NoProp
    THEN /\ i + 1 \in DOMAIN events
         /\ events[i + 1].e = "handleError"
         /\ events[i + 1].x = TrackObjectWithoutProp
         /\ ~SubscribedTo("T1", "a")
    ELSE IF events[i].x = Store
    THEN /\ ReturnedAfterRead(events, i)
         /\ events[i + 2].v = StoreValue(events[i].p)
         /\ events[i + 1].e = "storeRead"
         /\ events[i + 1].v = getSubscriber("T1")
    ELSE /\ Returned(events, i)
         /\ events[i + 1].v = untrackedValue["a"]
         /\ SubscribedTo("T1", "a")

\* The thrown promise the chore was waiting for has settled in this step
\* (a signal change, the only other step possible meanwhile, runs no task
\* code and leaves no events).
PromiseSettled == chore.state = "awaitSuspense" /\ events' # <<>>
\* The error handler was called with `reason` in the operation.
Handled(ev, reason) == \E i \in EventsOf(ev, "handleError") : ev[i].x = reason

\* C18: a body that throws a promise is not reported to the error handler,
\* and once that promise has settled runTask is invoked again, exactly once;
\* the first runTask's result stays pending until then.
C18_SuspendedRunIsRetried ==
  [][/\ ~Handled(events', ThrownPromise)
     /\ PromiseSettled => Cardinality(EventsOf(events', "runTask")) = 1]_vars

\* The body of the run threw the value x synchronously.
BodyThrew(ev, x) == \E i \in EventsOf(ev, "bodyThrew") : ev[i].x = x
\* The errors a body throws that are not promises.
Errors == {BodyError, TrackObjectWithoutProp}

\* C19: when the body of a task throws an error that is no promise on the
\* task's first run, the container's error handler is called exactly once, with
\* that error and the task's host, and nothing runs the task again: no retry
\* is awaited and no chore is enqueued.
C19_SyncThrowHandledOnce ==
  [][\A x \in Errors :
       (nrun = 0 /\ BodyThrew(events', x)) =>
         /\ Cardinality(EventsOf(events', "handleError")) = 1
         /\ \A i \in EventsOf(events', "handleError") :
              events'[i].x = x /\ events'[i].p = HostOf("T1")
         /\ Cardinality(EventsOf(events', "runTask")) = 1
         /\ chore'.state = "idle"
         /\ pending'["T1"] = "none"]_vars

\* The first run has thrown an error and the handler has received it.
C19_Witness ==
  /\ nrun = 1
  /\ BodyThrew(events, BodyError)
  /\ Handled(events, BodyError)

\* The promise returned by the body of the run has rejected with x.
BodyRejected(ev, x) == \E i \in EventsOf(ev, "bodyRejected") : ev[i].x = x

\* C20: when the promise returned by an asynchronous body rejects with an
\* error, the container's error handler is called with that error and the
\* task's host, whoever started the run: the task hook, a signal change or
\* the retry of a suspended run.
C20_RejectionReachesHandler ==
  [][BodyRejected(events', BodyError) =>
       /\ chore.via \in {"hook", "signal", "retry"}
       /\ \E i \in EventsOf(events', "handleError") :
            events'[i].x = BodyError /\ events'[i].p = HostOf("T1")
       /\ chore'.state = "idle"]_vars

\* The asynchronous body of a retried run has rejected and the handler has
\* received the error.
C20_Witness ==
  /\ chore.via = "retry"
  /\ BodyRejected(events, BodyError)
  /\ Handled(events, BodyError)

(***************************************************************************)
(* The scheduler.                                                          *)
(***************************************************************************)
\* The chore of the k-th call the last operation made to the scheduler.
CallChore(k) == ChoreOfCall([rec |-> subs], calls[k], "")
\* The last of those calls with the key of the k-th.
LastCallFor(k) ==
  CHOOSE l \in DOMAIN calls :
    /\ SameKey(CallChore(l), CallChore(k))
    /\ \A n \in DOMAIN calls : SameKey(CallChore(n), CallChore(k)) => n <= l

\* C21: at most one chore is pending per (type, target, property), and a
\* chore enqueued under a pending key replaces that entry's payload: after
\* any operation, each call it made to the scheduler is pending exactly once,
\* with the payload of the last call made under its key.
C21_OnePendingChorePerKey ==
  /\ \A i, j \in DOMAIN queue : SameKey(queue[i], queue[j]) => i = j
  /\ \A k \in DOMAIN calls :
       \E i \in DOMAIN queue :
         /\ SameKey(queue[i], CallChore(k))
         /\ queue[i].payload = CallChore(LastCallFor(k)).payload

\* One write has enqueued the NODE_PROP chore of (H, "p") twice, for signal a
\* and then for the computed signal, and one entry with the later payload is
\* pending.
C21_Witness ==
  /\ \E k, l \in DOMAIN calls :
       /\ k < l
       /\ SameKey(CallChore(k), CallChore(l))
       /\ CallChore(k).type = "NODE_PROP"
       /\ CallChore(k).payload = "a"
       /\ CallChore(l).payload = "double"
  /\ Cardinality({i \in DOMAIN queue : queue[i].type = "NODE_PROP"}) = 1
  /\ \E i \in DOMAIN queue : queue[i].type = "NODE_PROP" /\ queue[i].payload = "double"

\* The kind of the chore that runs task t or carries payload x: a visible
\* task is work of kind VISIBLE, whatever type it was enqueued with.
KindOf(type, x) ==
  IF x \in Tasks /\ HasFlag(flags[x], VISIBLE_TASK) THEN "VISIBLE" ELSE type

\* C22: the pending chores are executed in the order of their kinds,
\* RESOURCE, TASK, NODE_DIFF, NODE_PROP, COMPONENT, VISIBLE, whatever the
\* order they were enqueued in: when a chore has been executed, every chore
\* that was pending with it is of its kind or of a later one; so after one
\* signal change the component is rendered before its visible task runs again.
C22_ChoresRunInKindOrder ==
  \A i \in EventsOf(events, "chore") :
    \A j \in DOMAIN queue :
      queue[j].by # "chore" =>
        Rank(KindOf(events[i].x, events[i].p)) <= Rank(KindOf(queue[j].type, queue[j].payload))

C24_FlushDrainsTheQueue ==
  [][flush.active /\ ~flush'.active =>
       /\ queue = <<>>
       /\ chore.state = "idle"
       /\ \A t \in Tasks : HasFlag(flags[t], DIRTY) => t \in VisibleTasks(program) /\ ~triggered[t]]_vars

\* A flush has finished in which a chore enqueued by another chore, the
\* re-run of T1 after T2 wrote the signal T1 tracks, was executed.
C24_Witness ==
  /\ ~flush.active
  /\ flush.cascaded
  /\ flush.ran["T1"] = 2
  /\ flush.ran["T2"] = 1
  /\ queue = <<>>

\* C25: chores do not overlap: while the body of a task is suspended on an
\* awaited value no chore starts (no task runs, nothing leaves the queue),
\* whatever is pending or is enqueued meanwhile; the next chore starts after
\* the awaited value has settled.
C25_ChoresNeverOverlap ==
  [][chore.state = "awaitBody" =>
       /\ nrun' = nrun
       /\ flush'.ran = flush.ran
       /\ Len(queue') >= Len(queue)
       /\ \A i \in EventsOf(events', "chore") : events' = events]_vars

\* The body of T1 was suspended while the chore of T2 was pending; it has
\* settled, and T2 has run after it.
C25_Witness ==
  /\ program = "twins"
  /\ flush.awaited
  /\ chore.state = "idle"
  /\ flush.ran = [t \in Tasks |-> 1]
  /\ \E i \in EventsOf(events, "runTask") : events[i].x = "T2"

\* The tasks subscribed to signal s.
TasksTracking(s) == {t \in Tasks : \E r \in Range(effects[s]) : subs[r].effect = t}

Unsubscribed(value) ==
  /\ \A s \in Signals : \A r \in Range(effects[s]) : subs[r].effect # value
  /\ \A r \in DOMAIN subs : subs[r].effect = value => subs[r].deps = <<>>

StoreLocale(r) ==
  IF localAsyncStore /\ getStore(requests[r].frames) # 0
  THEN requests[r].frames[getStore(requests[r].frames)].store
  ELSE Undefined

\* C28: getLocale(defaultLocale) returns the first that is available of: the
\* locale of the current async-store context, the locale in _locale (set by
\* withLocale or setLocale), the locale of the invocation context,
\* defaultLocale; it throws the error 'Reading locale outside of context.'
\* when, and only when, none of them is; and it changes no state.
C28_GetLocalePreference ==
  [][lastGet'.r # "none" =>
       /\ lastGet'.result =
            IF StoreLocale(lastGet'.r) # Undefined THEN StoreLocale(lastGet'.r)
            ELSE IF _locale # Undefined THEN _locale
            ELSE IF lastGet'.ctx # Undefined THEN lastGet'.ctx
            ELSE IF lastGet'.defaultLocale # Undefined THEN lastGet'.defaultLocale
            ELSE OutsideOfContext
       /\ lastGet'.result = OutsideOfContext <=>
            /\ StoreLocale(lastGet'.r) = Undefined
            /\ _locale = Undefined
            /\ lastGet'.ctx = Undefined
            /\ lastGet'.defaultLocale = Undefined
       /\ _locale' = _locale
       /\ localAsyncStore' = localAsyncStore
       /\ \A q \in Requests : requests'[q].frames = requests[q].frames]_vars

\* getLocale was called with a default, under an invocation context that has
\* a locale, while _locale was set and no store was there: it returned _locale.
C28_Witness ==
  /\ lastGet.r # "none"
  /\ lastGet.ctx = CtxLocale
  /\ lastGet.defaultLocale = DefaultLocale
  /\ StoreLocale(lastGet.r) = Undefined
  /\ _locale # Undefined
  /\ lastGet.result = _locale

\* C29: withLocale(locale, fn) overrides the locale for the execution of fn
\* only: a call of getLocale in fn, before fn awaits, returns locale (or what
\* fn has set since); and when the call ends, by return or by an exception,
\* the stores and _locale are what they were at the call, so getLocale gives
\* what it gave before, innermost call first.
C29_WithLocaleIsScoped ==
  [][\A r \in Requests :
       /\ lastGet'.r = r /\ requests[r].frames # <<>> /\ ~Top(r).returned =>
            lastGet'.result = Top(r).expect
       /\ Len(requests'[r].frames) < Len(requests[r].frames) /\ ~Top(r).returned =>
            <<requests'[r].frames, _locale'>> = Top(r).before]_vars

\* Every call of withLocale request r is in runs its fn inside
\* localAsyncStore.run.
InStore(fr) == fr # <<>> /\ \A i \in DOMAIN fr : fr[i].path = "store"

ChangedValue(s) ==
  /\ lastOp'.op = "set"
  /\ lastOp'.sig = s
  /\ untrackedValue'[s] # untrackedValue[s]

\* How often the effect list of signal x was walked by the set of signal s:
\* once for s itself, and once per dispatch of a record of x for another.
Walked(s, x) == (IF x = s THEN 1 ELSE 0) + walks'[x]

\* The scheduler calls made for record r, or for its effect, while the
\* effect list of x was walked.
CallsOfRecord(x, r) ==
  {i \in DOMAIN calls' :
     /\ calls'[i].origin = x
     /\ (calls'[i].sub = r \/ calls'[i].host = subs[r].effect)}

SameBinding(x, r) ==
  {k \in DOMAIN effects[x] :
     /\ subs[effects[x][k]].effect = subs[r].effect
     /\ subs[effects[x][k]].prop = subs[r].prop}

\* The scheduler calls made for the host and property of record r while the
\* effect list of x was walked.
CallsOfBinding(x, r) ==
  {i \in DOMAIN calls' :
     /\ calls'[i].origin = x
     /\ calls'[i].host = subs[r].effect
     /\ calls'[i].prop = subs[r].prop}

\* The chore type and the signal argument of the call for a host
\* subscription with property p found in the list of x.
HostChore(p, x) ==
  IF p = PropTrue THEN <<"COMPONENT", "">>
  ELSE IF p = PropFalse THEN <<"NODE_DIFF", x>>
  ELSE <<"NODE_PROP", x>>

\* C33: each dispatch of a subscription whose effect is a host makes exactly
\* one scheduler call, for that host, whose type follows from the property
\* alone: true gives COMPONENT, false gives NODE_DIFF with the walked signal,
\* a string, the empty one included, gives NODE_PROP with the property name
\* and the walked signal.
C33_HostDispatch ==
  [][\A s \in Plain : ChangedValue(s) =>
       \A x \in Signals : \A r \in Range(effects[x]) :
         subs[r].effect \in Hosts =>
           /\ Cardinality(CallsOfBinding(x, r)) =
                Walked(s, x) * Cardinality(SameBinding(x, r))
           /\ \A i \in CallsOfBinding(x, r) :
                /\ <<calls'[i].type, calls'[i].signal>> = HostChore(subs[r].prop, x)
                /\ calls'[i].sub = 0]_vars

\* A set dispatched the binding of H whose property name is the empty string
\* as a NODE_PROP chore, and a binding reached through a derived signal.
C33_Witness ==
  /\ lastOp.op = "set"
  /\ \E i \in DOMAIN calls :
       calls[i].type = "NODE_PROP" /\ calls[i].prop = "" /\ calls[i].host = "H"
  /\ \E i \in DOMAIN calls :
       calls[i].type = "NODE_PROP" /\ calls[i].prop = "p" /\ calls[i].origin \in Derived

\* `s.value = v` changed s; the scheduler returned from every call, or threw.
SetChanged(s) ==
  /\ lastOp'.op \in {"set", "setThrows"}
  /\ lastOp'.sig = s
  /\ untrackedValue'[s] # untrackedValue[s]

\* Every NODE_DIFF and NODE_PROP call carries the signal whose effect list
\* holds the subscription it was made for.
CarriesOrigin ==
  \A i \in DOMAIN calls' :
    calls'[i].type \in {"NODE_DIFF", "NODE_PROP"} =>
      \E r \in Range(effects[calls'[i].signal]) :
        subs[r].effect = calls'[i].host /\ subs[r].prop = calls'[i].prop

\* The node subscriptions of s that come after the record of a computed or
\* derived signal whose walk was made are dispatched with s as origin.
RemainingDispatched(s) ==
  \A k, j \in DOMAIN effects[s] :
    (/\ k < j
     /\ subs[effects[s][k]].effect \in Signals
     /\ walks'[subs[effects[s][k]].effect] >= 1
     /\ subs[effects[s][j]].effect \in Hosts
     /\ subs[effects[s][j]].prop # PropTrue) =>
      \E i \in DOMAIN calls' :
        /\ calls'[i].host = subs[effects[s][j]].effect
        /\ calls'[i].prop = subs[effects[s][j]].prop
        /\ calls'[i].signal = s

\* The scheduler calls `s.value = v` makes when the scheduler returns from
\* each of them.
FullDispatch(s) == Signal2_set_value(Heap(NoCtx), s, lastOp'.arg).calls

\* The scheduler threw at a call made in the walk of a computed or derived
\* signal (not at the dispatch of a subscription of s itself).
ThrewInNestedWalk(s) ==
  /\ lastOp'.op = "setThrows"
  /\ FullDispatch(s)[Len(calls') + 1].origin # s

\* C34 as claimed: a NODE_DIFF or NODE_PROP call made for a subscription of
\* a computed or derived signal C carries C, and once the walk of C has
\* ended, by return or by an exception, the remaining subscriptions of the
\* outer signal are dispatched with the outer signal.
C34_OriginOfNodeChores ==
  [][\A s \in Plain :
       SetChanged(s) /\ (lastOp'.op = "set" \/ ThrewInNestedWalk(s)) =>
         CarriesOrigin /\ RemainingDispatched(s)]_vars

\* C34 amended: the calls carry the signal of the walked list; after a walk
\* that returned the remaining subscriptions of the outer signal are
\* dispatched with the outer signal; an exception in a walk leaves the
\* setter, and the calls made are those of the dispatch up to the exception.
C34_OriginOfNodeChores_Amended ==
  [][\A s \in Plain : SetChanged(s) =>
       /\ CarriesOrigin
       /\ ~lastOp'.err => RemainingDispatched(s)
       /\ lastOp'.op = "set" /\ lastOp'.err => lastOp'.overflow
       /\ lastOp'.op = "setThrows" =>
            /\ lastOp'.err
            /\ Len(calls') < Len(FullDispatch(s))
            /\ calls' = SubSeq(FullDispatch(s), 1, Len(calls'))]_vars

\* A set dispatched an attribute binding of a derived signal with that signal
\* and then a binding of the changed signal with the changed signal.
C34_Witness ==
  /\ lastOp.op = "set"
  /\ \E i, j \in DOMAIN calls :
       /\ i < j
       /\ calls[i].type = "NODE_PROP" /\ calls[i].signal \in Derived
       /\ calls[j].type = "NODE_PROP" /\ calls[j].signal \in Plain

\* The subscriptions a dispatch starting at entry i of the effect list of x
\* reaches, in depth-first order of the recorded lists: each as the signal
\* whose list holds it, its effect and its property.
RECURSIVE DepthFirst(_, _)
DepthFirst(x, i) ==
  IF i > Len(effects[x]) THEN <<>>
  ELSE (IF subs[effects[x][i]].effect \in Signals
        THEN DepthFirst(subs[effects[x][i]].effect, 1)
        ELSE << <<x, subs[effects[x][i]].effect, subs[effects[x][i]].prop>> >>)
       \o DepthFirst(x, i + 1)

\* The scheduler calls of the operation, each as the walked signal, the
\* effect and the property it was made for.
CallKeys ==
  [i \in DOMAIN calls' |->
     <<calls'[i].origin,
       IF calls'[i].type = "TASK" THEN subs'[calls'[i].sub].effect ELSE calls'[i].host,
       IF calls'[i].type = "TASK" THEN subs'[calls'[i].sub].prop ELSE calls'[i].prop>>]

\* C35: the scheduler calls of one `s.value = v` are made in the order the
\* subscriptions of s were recorded, and those of a computed or derived
\* signal subscribed to s, in their recorded order, at the place of the
\* record of that signal, before the next subscription of s (whenever the
\* walk ends: the order of a walk that exhausts the stack is not a list).
C35_DispatchOrder ==
  [][\A s \in Plain :
       ChangedValue(s) /\ ~lastOp'.overflow => CallKeys = DepthFirst(s, 1)]_vars

\* A set walked the list of a derived signal, calling for its two
\* subscriptions in the order they were recorded, and then called for the
\* next subscription of the changed signal.
C35_Witness ==
  /\ lastOp.op = "set"
  /\ \E i \in DOMAIN calls :
       /\ Len(calls) = i + 2
       /\ calls[i].origin \in Derived /\ calls[i].type = "TASK"
       /\ calls[i + 1].origin \in Derived /\ calls[i + 1].type = "NODE_PROP"
       /\ calls[i + 2].origin = lastOp.sig
       /\ subs[effects[calls[i].origin][1]].effect \in Tasks

\* The last operation ran $computeIfNeeded$ of c to the compute function
\* under an invocation context (the direct computation of a derived signal
\* without container, lines 393-396, is not $computeIfNeeded$).
ComputedUnderContext(c) ==
  /\ runs'[c] >= 1
  /\ lastOp'.ctx # "none"
  /\ ~(c \in Derived /\ lastOp'.op = "untrackedValue" /\ container[c] = Null)

\* The records the last operation added to the effect list of s.
AddedTo(s) == Range(effects'[s]) \ Range(effects[s])

\* The computed and derived signals whose function reads what c's reads.
SameInput(c) == {x \in Computed \cup Derived : FnInput(x) = FnInput(c)}

\* C36: while the function of a computed or derived signal c runs, the
\* context's effect subscriber is a record [c, false]: the signal the
\* function reads gains a record of c, and otherwise only records of other
\* signals computed from it in the same operation, not the reader's; when the
\* computation ends, by return or by throw, the context is the one from
\* before it, and after a throw c is invalid with the value it had (a throw
\* of the computation: the walk that follows it in $invalidate$ is not part
\* of it).
C36_ComputeScope ==
  [][\A c \in Computed \cup Derived :
       ComputedUnderContext(c) =>
         /\ lastOp'.restored
         /\ \A r \in AddedTo(FnInput(c)) :
              /\ subs'[r].effect \in SameInput(c)
              /\ runs'[subs'[r].effect] >= 1
              /\ subs'[r].prop = PropFalse
         /\ ~lastOp'.err =>
              \E r \in AddedTo(FnInput(c)) :
                /\ subs'[r].effect = c
                /\ \E k \in DOMAIN subs'[r].deps : subs'[r].deps[k] = FnInput(c)
         /\ lastOp'.err /\ ~lastOp'.overflow =>
              invalid'[c] /\ untrackedValue'[c] = untrackedValue[c]]_vars

\* $invalidate$() ran the function of a computed signal that held a value,
\* under a context of another container than the one of the signal it reads:
\* the read threw, and the computed signal is invalid with that value.
C36_Witness ==
  /\ lastOp.op = "invalidate"
  /\ lastOp.err
  /\ lastOp.ctx = "bare"
  /\ runs[lastOp.sig] = 1
  /\ lastOp.sig \in Computed
  /\ invalid[lastOp.sig]
  /\ untrackedValue[lastOp.sig] # NEEDS_COMPUTATION

(***************************************************************************)
(* Termination of the walk                                                 *)
(***************************************************************************)

\* C40: $triggerEffects$ returns for every subscription graph that tracked
\* reads can build: no operation ends by exhausting the call stack in the
\* recursive walk.
C40_WalkTerminates == ~lastOp.overflow

(***************************************************************************)
(* Subscriptions of a re-run                                               *)
(***************************************************************************)

\* The signals whose effect list holds, after the operation, a subscription
\* of effect x.
SubscriptionsOf(x) ==
  {s \in Signals : \E i \in DOMAIN effects'[s] : subs'[effects'[s][i]].effect = x}

\* The signals the function of computed signal c read in its latest run (the
\* operations that run it do not write a plain signal).
LatestReads(c) ==
  IF c \in Conditional
  THEN {FnInput(c)} \cup SecondInput(c, untrackedValue'[FnInput(c)])
  ELSE {FnInput(c)}

\* The operation ran the function of computed signal c under an invocation
\* context, and the function returned.
Recomputed(c) ==
  /\ runs'[c] >= 1
  /\ ~lastOp'.err
  /\ lastOp'.ctx # "none"

\* C37: after a computed signal re-ran its function, it is subscribed to
\* exactly the signals the function read in that run: the subscriptions of
\* the run before were removed.
C37_SubscribedToLatestReads ==
  [][\A c \in Computed : Recomputed(c) => SubscriptionsOf(c) = LatestReads(c)]_vars

(***************************************************************************)
(* clearEffects on arbitrary effect lists                                  *)
(*                                                                         *)
(* The effect lists of two signals are drawn from the lists that reads     *)
(* under the subscriptions of CallerSubs can build (each subscription at   *)
(* most once per list, in any order: two tasks and three bindings of host  *)
(* H), and clearEffects is applied to them.                                *)
(***************************************************************************)

\* The signals whose lists are drawn.
Listed == {"a", "double"}

\* The lists of at most MaxLen subscriptions, none of them twice.
EffectLists ==
  {l \in UNION {[1..n -> 1..NCaller] : n \in 0..MaxLen} :
     \A i, j \in DOMAIN l : i # j => l[i] # l[j]}

ClearInit ==
  /\ program = "sweep"
  /\ untrackedValue = [s \in Signals |-> IF s \in Plain THEN 0 ELSE NEEDS_COMPUTATION]
  /\ invalid = [c \in Computed \cup Derived |-> TRUE]
  /\ \E la, ld \in EffectLists :
       effects = [s \in Signals |-> IF s = "a" THEN la ELSE IF s = "double" THEN ld ELSE <<>>]
  /\ subs = CallerSubs
  /\ container = [s \in Signals |-> IF s \in Listed THEN "c1" ELSE Null]
  /\ flags = [t \in Tasks |-> TASK]
  /\ calls = <<>>
  /\ runs = NoRuns
  /\ walks = NoWalks
  /\ lastOp = [op |-> "new", sig |-> "", value |-> "", removed |-> FALSE]
  /\ NoTaskActivity
  /\ rethrows = FALSE
  /\ NoSchedulerActivity
  /\ NoLocaleActivity

\* The heap clearEffects works on: the effect lists and the subscriptions.
ClearHeap == [FreshHeap EXCEPT !.eff = effects, !.rec = subs]

\* clearEffects(s, value) for a task or a host (vnode) `value`.
ClearEffects ==
  \E s \in Listed, value \in Tasks \cup Hosts :
    /\ effects' = clearEffects(ClearHeap, s, value, Len(effects[s])).eff
    /\ subs' = clearEffects(ClearHeap, s, value, Len(effects[s])).rec
    /\ lastOp' = [op |-> "clearEffects", sig |-> s, value |-> value,
                  removed |-> clearEffects(ClearHeap, s, value, Len(effects[s])).removed]
    /\ UNCHANGED <<program, untrackedValue, invalid, container, flags, calls, runs, walks>>
    /\ UNCHANGED <<taskVars, schedulerVars, localeVars>>

ClearNext == ClearEffects

ClearSpec == ClearInit /\ [][ClearNext]_vars

\* The subscriptions of list l whose effect is not x, in their order.
Others(l, x) == SelectSeq(l, LAMBDA r : subs[r].effect # x)

\* C38: clearEffects(S, X) leaves in S.$effects$ the subscriptions of the
\* other effects, all of them and in their order, and none of X, however
\* many there were and wherever they stood; it changes no other list and no
\* subscription, and returns true exactly when the list held one of X.
C38_ClearEffects ==
  [][\A s \in Listed :
       lastOp'.op = "clearEffects" /\ lastOp'.sig = s =>
         /\ effects'[s] = Others(effects[s], lastOp'.value)
         /\ \A x \in Signals \ {s} : effects'[x] = effects[x]
         /\ subs' = subs
         /\ lastOp'.removed = (\E i \in DOMAIN effects[s] :
                                 subs[effects[s][i]].effect = lastOp'.value)]_vars

\* clearEffects removed two adjacent subscriptions of host H that stood
\* between the subscriptions of the two tasks.
C38_Witness ==
  /\ lastOp.op = "clearEffects"
  /\ lastOp.sig = "a"
  /\ lastOp.value = "H"
  /\ lastOp.removed
  /\ effects["a"] = <<1, 2>>

(***************************************************************************)
(* Exceptions of fn in withLocale                                          *)
(***************************************************************************)

\* The step of request r is a throw of fn, or of the call of withLocale
\* inside it.
FnThrew(r) ==
  /\ requests'[r] # requests[r]
  /\ requests[r].throwing \/ requests'[r].throws > requests[r].throws

\* C39: an exception thrown by fn leaves the call of withLocale it was
\* passed to, on either path, and fn is not executed a second time for that
\* call.
C39_ThrowLeavesWithLocale ==
  [][\A r \in Requests :
       FnThrew(r) =>
         /\ Len(requests'[r].frames) = Len(requests[r].frames) - 1
         /\ \A i \in DOMAIN requests'[r].frames : ~requests'[r].frames[i].again]_vars

(***************************************************************************)
(* A change of a tracked signal re-runs the task                           *)
(***************************************************************************)

\* The step changes signal a while the task holds a subscription to it (it
\* tracked a in its latest run: the run before that one cleared the older
\* subscriptions).
TrackedChanged(task) ==
  /\ untrackedValue'["a"] # untrackedValue["a"]
  /\ getSubscriber(task) \in Range(effects["a"])

\* Every value of a that track handed to the body in the step is the
\* value a has.
SeesCurrentValue ==
  \A i \in DOMAIN events' :
    events'[i].e = "track" /\ events'[i].x \in {"a", TrackFn} =>
      events'[i].v = untrackedValue'["a"]

\* The task is DIRTY and a chore of it waits that was enqueued for the
\* change of a signal (and the model has a run left).
RerunWaits(task) ==
  /\ pending[task] = "signal"
  /\ HasFlag(flags[task], DIRTY)
  /\ nrun < MaxRuns

\* runTask has been called since (it alone clears DIRTY, use-task.ts:171), or
\* the host was removed and the task with it.
RanAgain(task) ==
  \/ ~HasFlag(flags[task], DIRTY)
  \/ chore.state = "removed"

====
